---- MODULE Spec2Model ----
(***************************************************************************)
(* Subscription reconciliation and webhook processing of the               *)
(* better-auth-razorpay plugin: the subscription table, the orchestrator   *)
(* endpoints (create-or-update, cancel, restore, verify-payment), the      *)
(* sign-up hook and the webhook processor, as a state machine.             *)
(*                                                                         *)
(* Encoding of values:                                                     *)
(*   - JavaScript null / undefined is Null (the empty tuple) for ids,      *)
(*     dates, records and user ids, "" for strings and 0 for numbers (the  *)
(*     code tests all of these by truthiness);                             *)
(*   - a Date is the one-element tuple <<ms>>;                             *)
(*   - a local subscription id is <<"id", k>>, a provider subscription id  *)
(*     is <<"sub", k>>: the two identifier spaces are disjoint but         *)
(*     comparable, as the adapter compares them in where-clauses;          *)
(*   - an event name 'subscription.x' is written "subscription_x";         *)
(*   - a plan selector / plan name / plan id is a tuple of tokens, the     *)
(*     first token being "plan_" for strings that start with 'plan_'.      *)
(***************************************************************************)
EXTENDS Integers, Sequences, FiniteSets, TLC

VARIABLES
    cfg,      \* plugin options (fixed at construction)
    users,    \* ids present in the adapter's "user" model
    subs,     \* the adapter's "subscription" model, in insertion order
    rpCount,  \* number of provider subscriptions created so far
    now,      \* the wall clock read by new Date()
    reqs,     \* create-or-update requests suspended at an await point
    last      \* the last completed request: its input, response and effects

vars == <<cfg, users, subs, rpCount, now, reqs, last>>

----------------------------------------------------------------------------
(* Bounds *)

MaxSubs == 2      \* records the subscription table may hold
MaxTime == 1      \* ticks of the wall clock
MaxReqs == 2      \* create-or-update requests in flight at once

----------------------------------------------------------------------------
(* Values *)

Null == <<>>

Date(ms) == <<ms>>

LocalId(k) == <<"id", k>>

SubId(k) == <<"sub", k>>

Users == {<<"u1">>, <<"u2">>}

StatusSet ==
    {"created", "active", "pending", "halted", "cancelled", "completed",
     "expired", "trialing"}

----------------------------------------------------------------------------
(* Plans *)

StarterPlan ==
    [name |-> <<"Starter">>, monthlyPlanId |-> <<"plan_", "m1">>,
     annualPlanId |-> <<"plan_", "a1">>]

ProPlan ==
    [name |-> <<"Pro">>, monthlyPlanId |-> <<"plan_", "m2">>,
     annualPlanId |-> Null]

StartsWithPlan(s) == Len(s) > 0 /\ s[1] = "plan_"

\* plans.find(pred): the first element satisfying pred, or Null
FindFirst(seq, Pred(_)) ==
    LET idx == {i \in 1..Len(seq) : Pred(seq[i])}
    IN  IF idx = {} THEN Null
        ELSE seq[CHOOSE i \in idx : \A j \in idx : i <= j]

\* A lookup that matches a selector against names and ids alike
ResolvePlanEither(plans, selector) ==
    LET Either(p) == \/ p.name = selector
                     \/ p.monthlyPlanId = selector
                     \/ p.annualPlanId = selector
    IN  FindFirst(plans, Either)

ResolvePlan(plans, selector) ==
    IF StartsWithPlan(selector)
    THEN LET ById(p) == p.monthlyPlanId = selector \/ p.annualPlanId = selector
         IN  FindFirst(plans, ById)
    ELSE LET ByName(p) == p.name = selector
         IN  FindFirst(plans, ByName)

EffectivePlanId(plan, annual) ==
    IF annual /\ plan.annualPlanId # Null THEN plan.annualPlanId
    ELSE plan.monthlyPlanId

\* A billing-cycle count that ignores the annual flag
TotalCountAlwaysTwelve(annual) == 12

TotalCount(annual) == IF annual THEN 1 ELSE 12

----------------------------------------------------------------------------
(* Status vocabulary *)

toLocalStatus(razorpayStatus) ==
    CASE razorpayStatus = "created" -> "created"
      [] razorpayStatus = "authenticated" -> "pending"
      [] razorpayStatus = "active" -> "active"
      [] razorpayStatus = "pending" -> "pending"
      [] razorpayStatus = "halted" -> "halted"
      [] razorpayStatus = "cancelled" -> "cancelled"
      [] razorpayStatus = "completed" -> "completed"
      [] razorpayStatus = "expired" -> "expired"
      [] OTHER -> "pending"

\* A live-status list that leaves out 'created', the status a subscription
\* has between checkout creation and first payment
activeStatusesNoCreated == {"active", "trialing", "pending", "halted"}

activeStatuses == {"active", "trialing", "pending", "created", "halted"}

----------------------------------------------------------------------------
(* Persistence adapter: findOne, findMany, update, create over a model *)

Matching(store, field, value) ==
    {i \in 1..Len(store) : store[i][field] = value}

FindOne(store, field, value) ==
    LET idx == Matching(store, field, value)
    IN  IF idx = {} THEN Null
        ELSE store[CHOOSE i \in idx : \A j \in idx : i <= j]

FindMany(store, field, value) ==
    LET Hit(r) == r[field] = value
    IN  SelectSeq(store, Hit)

Undefined == <<"undefined", "undefined">>

\* Fields of the written data replace the record's; a key whose value is
\* undefined is not written
DateFields == {"trialEnd", "periodStart", "periodEnd", "updatedAt"}

\* An update that loses the owner of the record it writes
MergeDropsReference(r, data) ==
    [f \in DOMAIN r |->
        IF f \in DOMAIN data /\ ~(f \in DateFields /\ data[f] = Undefined)
        THEN data[f]
        ELSE IF f = "referenceId" THEN Null ELSE r[f]]

Merge(r, data) ==
    [f \in DOMAIN r |->
        IF f \in DOMAIN data /\ ~(f \in DateFields /\ data[f] = Undefined)
        THEN data[f] ELSE r[f]]

\* update({model, where: [{field, value}], update}): the first record that
\* matches takes the written fields; with no match nothing is written
AdapterUpdate(store, field, value, data) ==
    LET idx == Matching(store, field, value)
    IN  IF idx = {} THEN store
        ELSE LET k == CHOOSE i \in idx : \A j \in idx : i <= j
             IN  [store EXCEPT ![k] = Merge(store[k], data)]

\* create({model, data}): the adapter generates the id
AdapterCreate(store, data) ==
    Append(store, data @@ [id |-> LocalId(Len(store) + 1)])

----------------------------------------------------------------------------
(* Error classifier *)

\* A thrown value is described by the features the classifier sniffs:
\* its kind (zod, network, timeout, razorpay envelope, message, other) and,
\* for an envelope, rpCode: the code of error.response.data.error or
\* error.error ("" when it has none).
ProviderError == [kind |-> "razorpay", rpCode |-> "BAD_REQUEST_ERROR"]

\* A classifier without the final fallback: a value it does not recognise
\* leaves the handler as an exception
handleRazorpayErrorNoFallback(error) ==
    CASE error.kind = "zod" -> "INVALID_REQUEST"
      [] error.kind = "network" -> "NETWORK_ERROR"
      [] error.kind = "timeout" -> "TIMEOUT_ERROR"
      [] error.kind = "razorpay" ->
            IF error.rpCode # ""
            THEN error.rpCode ELSE "RAZORPAY_ERROR"
      [] OTHER -> "THROWN"

handleRazorpayError(error) ==
    CASE error.kind = "zod" -> "INVALID_REQUEST"
      [] error.kind = "network" -> "NETWORK_ERROR"
      [] error.kind = "timeout" -> "TIMEOUT_ERROR"
      [] error.kind = "razorpay" ->
            IF error.rpCode # ""
            THEN error.rpCode ELSE "RAZORPAY_ERROR"
      [] OTHER -> "UNKNOWN_ERROR"

----------------------------------------------------------------------------
(* Initial state *)

\* What a completed request leaves in `last`: the endpoint, the session's
\* user, the request, the provider's reply (when the provider was called),
\* the response code ("OK" or the
\* error code / message), the provider operations called, the response
\* data, the callbacks invoked, the clock reading during the request, and
\* whether the request repeats the one completed just before it
Completed(op, caller, req, prov, code, calls, resp, cbs, t) ==
    [op |-> op, caller |-> caller, req |-> req,
     code |-> code, calls |-> calls, resp |-> resp, cbs |-> cbs,
     provider |-> IF calls = <<>> THEN Null ELSE prov, at |-> t,
     repeat |-> (last.op = op /\ last.caller = caller /\ last.req = req)]

NoRequest ==
    [op |-> "none", caller |-> Null, req |-> Null, code |-> "none",
     calls |-> <<>>, resp |-> Null, cbs |-> <<>>, provider |-> Null, at |-> 0,
     repeat |-> FALSE]

TrialDays == 7

BaseCfg ==
    [plans |-> <<StarterPlan, ProPlan>>,
     enabled |-> TRUE,
     createCustomerOnSignUp |-> TRUE,
     getCustomerCreateParams |-> "ok",
     onCustomerCreate |-> "ok",
     trialDays |-> TrialDays,
     webhookSecret |-> "whsec",
     keySecret |-> "keysec",
     authorizeReference |-> "none",
     onSubscriptionCreated |-> "ok",
     onEvent |-> "ok",
     onSubscriptionActivated |-> "ok",
     onSubscriptionCancel |-> "ok",
     onSubscriptionUpdate |-> "ok",
     onWebhookEvent |-> "ok",
     getSubscriptionCreateParams |-> Null]

DayMs == 24 * 60 * 60 * 1000

----------------------------------------------------------------------------
(* Customer-provisioning hook (databaseHooks.user.create.after) *)

TrialRecord(userId, customerId, t, days) ==
    [plan |-> <<"Trial">>,
     planId |-> Null,
     referenceId |-> userId,
     razorpaySubscriptionId |-> Null,
     status |-> "trialing",
     trialEnd |-> Date(t + days * DayMs),
     periodStart |-> Null,
     periodEnd |-> Null,
     cancelAtPeriodEnd |-> FALSE,
     seats |-> 1,
     updatedAt |-> Date(t)]

\* The awaited steps of the hook body, in order (lines 192-243); the two
\* callbacks are awaited only when configured, the trial record is created
\* only for a positive day count
SignUpSteps(c) ==
    (IF c.getCustomerCreateParams # "none"
     THEN <<"getCustomerCreateParams">> ELSE <<>>)
    \o <<"customers.create", "adapter.update">>
    \o (IF c.onCustomerCreate # "none" THEN <<"onCustomerCreate">> ELSE <<>>)
    \o (IF c.trialDays > 0 THEN <<"adapter.create">> ELSE <<>>)

\* The hook body run for a newly created user; failure is the step that
\* throws ("none": no step throws). calls are the steps awaited, the
\* throwing one included; the trial record exists only if no step threw.
SignUpBody(store, c, userId, failure, t) ==
    LET steps == SignUpSteps(c)
        at == {i \in 1..Len(steps) : steps[i] = failure}
        k == IF at = {} THEN 0 ELSE CHOOSE i \in at : TRUE
    IN  [store |-> IF k = 0 /\ c.trialDays > 0
                   THEN AdapterCreate(store,
                            TrialRecord(userId, <<"cust", userId>>, t, c.trialDays))
                   ELSE store,
         calls |-> IF k = 0 THEN steps ELSE SubSeq(steps, 1, k),
         threw |-> k # 0]

\* A hook body that is not wrapped: its error reaches the user-creation
\* request
CaughtAndLoggedRethrow(block) == block

\* try { body } catch (err) { console.error(...) } (lines 191, 244-246)
CaughtAndLogged(block) == [block EXCEPT !.threw = FALSE]

\* A hook installed whatever createCustomerOnSignUp says
SignUpHookUnconditional(store, c, userId, failure, t) ==
    CaughtAndLogged(SignUpBody(store, c, userId, failure, t))

\* Lines 169-251: databaseHooks.user.create.after is installed only when
\* createCustomerOnSignUp is set
SignUpHook(store, c, userId, failure, t) ==
    IF ~c.createCustomerOnSignUp
    THEN [store |-> store, calls |-> <<>>, threw |-> FALSE]
    ELSE CaughtAndLogged(SignUpBody(store, c, userId, failure, t))

\* A user row is created and the hook runs after it; an error leaving the
\* hook fails the user-creation request; the step chosen to throw is
\* kept as the request
SignUp(u, failure) ==
    LET h == SignUpHook(subs, cfg, u, failure, now)
    IN  /\ u \notin users
        /\ Len(subs) < MaxSubs
        /\ \/ failure = "none"
           \/ /\ cfg.createCustomerOnSignUp
              /\ failure \in {SignUpSteps(cfg)[i] :
                                i \in 1..Len(SignUpSteps(cfg))}
        /\ users' = users \cup {u}
        /\ subs' = h.store
        /\ last' = Completed("signup", u, [failure |-> failure], Null,
                             IF h.threw THEN "SIGNUP_FAILED" ELSE "OK",
                             h.calls, Null, <<>>, now)
        /\ UNCHANGED <<cfg, rpCount, now, reqs>>

----------------------------------------------------------------------------
(* POST subscription/create-or-update *)

getPrimaryKey(record) ==
    IF "id" \in DOMAIN record /\ record.id # Null /\ record.id # ""
    THEN [field |-> "id", value |-> record.id]
    ELSE [field |-> "id", value |-> ""]

IsActivePaid(s) ==
    s.status \in activeStatuses /\ s.razorpaySubscriptionId # Null

\* A trial test that looks for a trialing record already linked to the
\* provider, so that the app-level trial is never found
IsAppTrialLinked(s) ==
    s.status = "trialing" /\ s.razorpaySubscriptionId # Null

IsAppTrial(s) ==
    s.status = "trialing" /\ s.razorpaySubscriptionId = Null

CheckoutUrl(body, rpId) ==
    IF body.embed THEN Null ELSE <<"short_url", rpId>>

\* An authorization step that lets the request through when the hook throws
AuthorizeReferenceFailOpen(c) ==
    IF c.authorizeReference = "deny" THEN "FORBIDDEN" ELSE "PROCEED"

\* Lines 107-119: the authorization hook ("none": not configured; "allow" /
\* "deny": returns true / false; "throw": throws, caught at line 392)
AuthorizeReference(c) ==
    IF c.authorizeReference = "throw"
    THEN handleRazorpayError([kind |-> "message"])
    ELSE IF c.authorizeReference = "deny" THEN "FORBIDDEN"
    ELSE "PROCEED"

\* An update path that goes on to create a new subscription
UpdateSnapshotCreates(existing, body, prov, plan) ==
    [plan |-> plan, code |-> "PROCEED", calls |-> <<>>, resp |-> Null,
     trial |-> Null]

\* Lines 142-173: the update path for an owned record linked to the provider
UpdateSnapshot(existing, body, prov, plan) ==
    IF prov.fail
    THEN [plan |-> plan, code |-> handleRazorpayError(prov.error),
          calls |-> <<"subscriptions.fetch">>, resp |-> Null, trial |-> Null]
    ELSE [plan |-> plan, code |-> "OK",
          calls |-> <<"subscriptions.fetch">>,
          resp |-> [subscription |->
                       [id |-> existing.id,
                        razorpaySubscriptionId |-> existing.razorpaySubscriptionId,
                        status |-> existing.status],
                    checkoutUrl |-> CheckoutUrl(body, existing.razorpaySubscriptionId)],
          trial |-> Null]

\* Lines 57-205: everything up to and including the already-subscribed
\* check. code = "PROCEED" when the request goes on to build the provider
\* payload; trial is the app-level trial record read at line 177, or Null.
CouGate(c, userTable, store, caller, body, prov) ==
    LET plan == ResolvePlan(c.plans, body.plan)
        stop(code) == [plan |-> plan, code |-> code, calls |-> <<>>,
                       resp |-> Null, trial |-> Null]
        existing == FindOne(store, "id", body.subscriptionId)
        mine == FindMany(store, "referenceId", caller)
        activePaidSubs == SelectSeq(mine, IsActivePaid)
        appTrialSubs == SelectSeq(mine, IsAppTrial)
        appTrialSub == IF Len(appTrialSubs) = 1 THEN appTrialSubs[1] ELSE Null
        listCheck ==
            IF Len(activePaidSubs) > 0 THEN stop("ALREADY_SUBSCRIBED")
            ELSE [plan |-> plan, code |-> "PROCEED", calls |-> <<>>,
                  resp |-> Null, trial |-> appTrialSub]
    IN  IF ~c.enabled THEN stop("SUBSCRIPTION_DISABLED")
        ELSE IF plan = Null THEN stop("PLAN_NOT_FOUND")
        ELSE IF caller = Null THEN stop("UNAUTHORIZED")
        ELSE IF caller \notin userTable THEN stop("USER_NOT_FOUND")
        ELSE IF AuthorizeReference(c) # "PROCEED" THEN stop(AuthorizeReference(c))
        ELSE IF body.subscriptionId = Null THEN listCheck
        ELSE IF existing = Null THEN stop("SUBSCRIPTION_NOT_FOUND")
        ELSE IF existing.referenceId # caller THEN stop("FORBIDDEN")
        ELSE IF existing.razorpaySubscriptionId = Null THEN listCheck
        ELSE UpdateSnapshot(existing, body, prov, plan)

\* Lines 207-214: the request sent to razorpay.subscriptions.create
SubscriptionPayload(plan, body, caller) ==
    [plan_id |-> EffectivePlanId(plan, body.annual),
     total_count |-> TotalCount(body.annual),
     quantity |-> body.seats,
     customer_notify |-> TRUE,
     notes |-> [referenceId |-> caller, planName |-> plan.name]]

\* Lines 236-241: what the getSubscriptionCreateParams result does to the
\* request.  The notes are spread over the base notes first, and then
\* Object.assign copies every key of params, its notes key included, onto
\* the request.
ApplyCreateParams(payload, extra) ==
    LET hasParams == extra # Null /\ extra.params # Null
        hasNotes == hasParams /\ "notes" \in DOMAIN extra.params
        spread == IF hasNotes
                  THEN [payload EXCEPT
                           !.notes = extra.params.notes @@ payload.notes]
                  ELSE payload
    IN  IF hasParams THEN extra.params @@ spread ELSE spread

\* Lines 207-246: the request as razorpay.subscriptions.create receives it
CreateRequest(c, plan, body, caller) ==
    IF c.getSubscriptionCreateParams = Null
    THEN SubscriptionPayload(plan, body, caller)
    ELSE ApplyCreateParams(SubscriptionPayload(plan, body, caller),
                           c.getSubscriptionCreateParams.returns)

\* What razorpay.subscriptions.create returns for the k-th subscription
RpSubscription(k, prov) ==
    [id |-> SubId(k), status |-> prov.status,
     current_start |-> prov.current_start, current_end |-> prov.current_end]

PeriodDate(seconds) ==
    IF seconds # 0 THEN Date(seconds * 1000) ELSE Null

\* Lines 247-391: the local write after the provider returned rpSub
CouPersist(store, trial, plan, body, rpSub, caller, t) ==
    LET planId == EffectivePlanId(plan, body.annual)
        periodStart == PeriodDate(rpSub.current_start)
        periodEnd == PeriodDate(rpSub.current_end)
        newStatus == toLocalStatus(rpSub.status)
        trialPk == getPrimaryKey(trial)
        subscriptionData ==
            [plan |-> plan.name,
             planId |-> planId,
             referenceId |-> caller,
             razorpaySubscriptionId |-> rpSub.id,
             status |-> newStatus,
             trialEnd |-> Null,
             periodStart |-> periodStart,
             periodEnd |-> periodEnd,
             cancelAtPeriodEnd |-> FALSE,
             seats |-> body.seats,
             updatedAt |-> Date(t)]
        created == AdapterCreate(store, subscriptionData)
    IN  IF trial # Null
        THEN IF trialPk.value = ""
             THEN [store |-> store, code |-> "INVALID_TRIAL", resp |-> Null]
             ELSE [store |-> AdapterUpdate(store, trialPk.field, trialPk.value,
                                [plan |-> plan.name,
                                 planId |-> planId,
                                 razorpaySubscriptionId |-> rpSub.id,
                                 status |-> newStatus,
                                 trialEnd |-> Date(t),
                                 periodStart |-> periodStart,
                                 periodEnd |-> periodEnd,
                                 seats |-> body.seats,
                                 updatedAt |-> Date(t)]),
                   code |-> "OK",
                   resp |-> [razorpaySubscriptionId |-> rpSub.id,
                             checkoutUrl |-> CheckoutUrl(body, rpSub.id),
                             subscriptionId |-> trialPk.value]]
        ELSE [store |-> created, code |-> "OK",
              resp |-> [razorpaySubscriptionId |-> rpSub.id,
                        checkoutUrl |-> CheckoutUrl(body, rpSub.id),
                        subscriptionId |-> created[Len(created)].id]]

\* Lines 282-301 and 366-372: onSubscriptionCreated is awaited after the
\* local write, inside the handler's only try block; what it throws reaches
\* the catch of line 392. p is the result of the local write.
CouNotify(c, p) ==
    LET written == FindOne(p.store, "id", p.resp.subscriptionId)
        invoked(threw) == <<[name |-> "onSubscriptionCreated",
                             status |-> written.status, threw |-> threw]>>
    IN  IF p.code # "OK" \/ c.onSubscriptionCreated = "none"
        THEN [store |-> p.store, code |-> p.code, resp |-> p.resp, cbs |-> <<>>]
        ELSE IF c.onSubscriptionCreated = "throw"
        THEN [store |-> p.store,
              code |-> handleRazorpayError([kind |-> "message"]),
              resp |-> Null, cbs |-> invoked(TRUE)]
        ELSE [store |-> p.store, code |-> p.code, resp |-> p.resp,
              cbs |-> invoked(FALSE)]

\* A handler that writes the local record before it calls the provider
CouOutcomeWriteFirst(c, userTable, store, k, caller, body, prov, t) ==
    LET g == CouGate(c, userTable, store, caller, body, prov)
        rpSub == RpSubscription(k + 1, prov)
        payload == CreateRequest(c, g.plan, body, caller)
        p == CouNotify(c, CouPersist(store, g.trial, g.plan, body, rpSub,
                                     caller, t))
    IN  IF g.code # "PROCEED"
        THEN [rpCount |-> k, store |-> store, code |-> g.code,
              calls |-> g.calls, resp |-> g.resp, cbs |-> <<>>,
              request |-> Null]
        ELSE IF prov.fail
        THEN [rpCount |-> k, store |-> p.store,
              code |-> handleRazorpayError(prov.error),
              calls |-> <<"subscriptions.create">>, resp |-> Null,
              cbs |-> <<>>, request |-> payload]
        ELSE [rpCount |-> k + 1, store |-> p.store, code |-> p.code,
              calls |-> <<"subscriptions.create">>, resp |-> p.resp,
              cbs |-> p.cbs, request |-> payload]

\* The whole handler, run without interleaving; request is the payload
\* handed to razorpay.subscriptions.create (Null when it is not called)
CouOutcome(c, userTable, store, k, caller, body, prov, t) ==
    LET g == CouGate(c, userTable, store, caller, body, prov)
        rpSub == RpSubscription(k + 1, prov)
        payload == CreateRequest(c, g.plan, body, caller)
        p == CouNotify(c, CouPersist(store, g.trial, g.plan, body, rpSub,
                                     caller, t))
    IN  IF g.code # "PROCEED"
        THEN [rpCount |-> k, store |-> store, code |-> g.code,
              calls |-> g.calls, resp |-> g.resp, cbs |-> <<>>,
              request |-> Null]
        ELSE IF prov.fail
        THEN [rpCount |-> k, store |-> store,
              code |-> handleRazorpayError(prov.error),
              calls |-> <<"subscriptions.create">>, resp |-> Null,
              cbs |-> <<>>, request |-> payload]
        ELSE [rpCount |-> k + 1, store |-> p.store, code |-> p.code,
              calls |-> <<"subscriptions.create">>, resp |-> p.resp,
              cbs |-> p.cbs, request |-> payload]

CreateOrUpdate(caller, body, prov) ==
    LET o == CouOutcome(cfg, users, subs, rpCount, caller, body, prov, now)
        sent == IF o.request = Null THEN prov
                ELSE prov @@ [request |-> o.request]
    IN  /\ Len(o.store) <= MaxSubs
        /\ subs' = o.store
        /\ rpCount' = o.rpCount
        /\ last' = Completed("create-or-update", caller, body, sent, o.code,
                             o.calls, o.resp, o.cbs, now)
        /\ UNCHANGED <<cfg, users, now, reqs>>

\* A run of the handler in which the provider created the subscription and
\* the local write that follows (adapter.update of line 264 or
\* adapter.create of line 341) throws: nothing is stored, and the catch of
\* line 392 returns the classified error
CreateOrUpdateWriteThrows(caller, body, prov, error) ==
    LET g == CouGate(cfg, users, subs, caller, body, prov)
        sent == prov @@ [request |-> CreateRequest(cfg, g.plan, body, caller)]
    IN  /\ g.code = "PROCEED"
        /\ ~prov.fail
        /\ rpCount < MaxSubs
        /\ rpCount' = rpCount + 1
        /\ last' = Completed("create-or-update", caller, body, sent,
                             handleRazorpayError(error),
                             <<"subscriptions.create">>, Null, <<>>, now)
        /\ UNCHANGED <<cfg, users, subs, now, reqs>>

----------------------------------------------------------------------------
(* POST subscription/cancel *)

\* A cancel handler without the ownership test of lines 44-49
CancelOutcomeAnyOwner(store, caller, body, prov, t) ==
    LET record == FindOne(store, "id", body.subscriptionId)
        stop(code) == [store |-> store, code |-> code, calls |-> <<>>,
                       resp |-> Null]
    IN  IF caller = Null THEN stop("UNAUTHORIZED")
        ELSE IF record = Null THEN stop("SUBSCRIPTION_NOT_FOUND")
        ELSE IF record.razorpaySubscriptionId = Null THEN stop("INVALID_STATE")
        ELSE IF prov.fail
             THEN [store |-> store, code |-> handleRazorpayError(prov.error),
                   calls |-> <<"subscriptions.cancel">>, resp |-> Null]
        ELSE [store |-> AdapterUpdate(store, "razorpaySubscriptionId",
                            body.subscriptionId,
                            [cancelAtPeriodEnd |-> ~body.immediately,
                             updatedAt |-> Date(t)]),
              code |-> "OK",
              calls |-> <<"subscriptions.cancel">>,
              resp |-> [id |-> record.razorpaySubscriptionId,
                        status |-> prov.status]]

\* A cancel handler that marks the record it found as cancelled itself
CancelOutcomeWritesStatus(store, caller, body, prov, t) ==
    LET record == FindOne(store, "id", body.subscriptionId)
        stop(code) == [store |-> store, code |-> code, calls |-> <<>>,
                       resp |-> Null]
    IN  IF caller = Null THEN stop("UNAUTHORIZED")
        ELSE IF record = Null THEN stop("SUBSCRIPTION_NOT_FOUND")
        ELSE IF record.referenceId # caller THEN stop("FORBIDDEN")
        ELSE IF record.razorpaySubscriptionId = Null THEN stop("INVALID_STATE")
        ELSE IF prov.fail
             THEN [store |-> store, code |-> handleRazorpayError(prov.error),
                   calls |-> <<"subscriptions.cancel">>, resp |-> Null]
        ELSE [store |-> AdapterUpdate(store, "id", body.subscriptionId,
                            [status |-> "cancelled",
                             cancelAtPeriodEnd |-> ~body.immediately,
                             updatedAt |-> Date(t)]),
              code |-> "OK",
              calls |-> <<"subscriptions.cancel">>,
              resp |-> [id |-> record.razorpaySubscriptionId,
                        status |-> prov.status]]

CancelOutcome(store, caller, body, prov, t) ==
    LET record == FindOne(store, "id", body.subscriptionId)
        stop(code) == [store |-> store, code |-> code, calls |-> <<>>,
                       resp |-> Null]
    IN  IF caller = Null THEN stop("UNAUTHORIZED")
        ELSE IF record = Null THEN stop("SUBSCRIPTION_NOT_FOUND")
        ELSE IF record.referenceId # caller THEN stop("FORBIDDEN")
        ELSE IF record.razorpaySubscriptionId = Null THEN stop("INVALID_STATE")
        ELSE IF prov.fail
             THEN [store |-> store, code |-> handleRazorpayError(prov.error),
                   calls |-> <<"subscriptions.cancel">>, resp |-> Null]
        ELSE [store |-> AdapterUpdate(store, "razorpaySubscriptionId",
                            body.subscriptionId,
                            [cancelAtPeriodEnd |-> ~body.immediately,
                             updatedAt |-> Date(t)]),
              code |-> "OK",
              calls |-> <<"subscriptions.cancel">>,
              resp |-> [id |-> record.razorpaySubscriptionId,
                        status |-> prov.status]]

Cancel(caller, body, prov) ==
    LET o == CancelOutcome(subs, caller, body, prov, now)
    IN  /\ subs' = o.store
        /\ last' = Completed("cancel", caller, body, prov, o.code, o.calls,
                          o.resp, <<>>, now)
        /\ UNCHANGED <<cfg, users, rpCount, now, reqs>>

----------------------------------------------------------------------------
(* POST subscription/restore *)

\* A branch selection that tests the halted status before the
\* cancel-at-period-end flag
RestoreBranchHaltedFirst(record) ==
    IF record.status = "halted" THEN "subscriptions.resume"
    ELSE IF record.cancelAtPeriodEnd THEN "subscriptions.cancelScheduledChanges"
    ELSE "none"

\* Lines 57-77: which provider operation restores the record
RestoreBranch(record) ==
    IF record.cancelAtPeriodEnd THEN "subscriptions.cancelScheduledChanges"
    ELSE IF record.status = "halted" THEN "subscriptions.resume"
    ELSE "none"

\* A restore handler whose update looks the record up the way cancel does,
\* by provider id with the local id as the value
RestoreOutcomeWrongKey(store, caller, body, prov, t) ==
    LET record == FindOne(store, "id", body.subscriptionId)
        stop(code) == [store |-> store, code |-> code, calls |-> <<>>,
                       resp |-> Null]
    IN  IF caller = Null THEN stop("UNAUTHORIZED")
        ELSE IF record = Null THEN stop("SUBSCRIPTION_NOT_FOUND")
        ELSE IF record.referenceId # caller THEN stop("FORBIDDEN")
        ELSE IF record.razorpaySubscriptionId = Null THEN stop("INVALID_STATE")
        ELSE IF RestoreBranch(record) = "none" THEN stop("INVALID_STATE")
        ELSE IF prov.fail
             THEN [store |-> store, code |-> handleRazorpayError(prov.error),
                   calls |-> <<RestoreBranch(record)>>, resp |-> Null]
        ELSE [store |-> AdapterUpdate(store, "razorpaySubscriptionId",
                            body.subscriptionId,
                            [cancelAtPeriodEnd |-> FALSE,
                             updatedAt |-> Date(t)]),
              code |-> "OK",
              calls |-> <<RestoreBranch(record)>>,
              resp |-> [id |-> record.razorpaySubscriptionId,
                        status |-> prov.status]]

\* A restore handler that writes the record before it calls the provider
RestoreOutcomeWriteFirst(store, caller, body, prov, t) ==
    LET record == FindOne(store, "id", body.subscriptionId)
        stop(code) == [store |-> store, code |-> code, calls |-> <<>>,
                       resp |-> Null]
        written == AdapterUpdate(store, "id", body.subscriptionId,
                                 [cancelAtPeriodEnd |-> FALSE,
                                  updatedAt |-> Date(t)])
    IN  IF caller = Null THEN stop("UNAUTHORIZED")
        ELSE IF record = Null THEN stop("SUBSCRIPTION_NOT_FOUND")
        ELSE IF record.referenceId # caller THEN stop("FORBIDDEN")
        ELSE IF record.razorpaySubscriptionId = Null THEN stop("INVALID_STATE")
        ELSE IF RestoreBranch(record) = "none" THEN stop("INVALID_STATE")
        ELSE IF prov.fail
             THEN [store |-> written, code |-> handleRazorpayError(prov.error),
                   calls |-> <<RestoreBranch(record)>>, resp |-> Null]
        ELSE [store |-> written,
              code |-> "OK",
              calls |-> <<RestoreBranch(record)>>,
              resp |-> [id |-> record.razorpaySubscriptionId,
                        status |-> prov.status]]

RestoreOutcome(store, caller, body, prov, t) ==
    LET record == FindOne(store, "id", body.subscriptionId)
        stop(code) == [store |-> store, code |-> code, calls |-> <<>>,
                       resp |-> Null]
    IN  IF caller = Null THEN stop("UNAUTHORIZED")
        ELSE IF record = Null THEN stop("SUBSCRIPTION_NOT_FOUND")
        ELSE IF record.referenceId # caller THEN stop("FORBIDDEN")
        ELSE IF record.razorpaySubscriptionId = Null THEN stop("INVALID_STATE")
        ELSE IF RestoreBranch(record) = "none" THEN stop("INVALID_STATE")
        ELSE IF prov.fail
             THEN [store |-> store, code |-> handleRazorpayError(prov.error),
                   calls |-> <<RestoreBranch(record)>>, resp |-> Null]
        ELSE [store |-> AdapterUpdate(store, "id", body.subscriptionId,
                            [cancelAtPeriodEnd |-> FALSE,
                             updatedAt |-> Date(t)]),
              code |-> "OK",
              calls |-> <<RestoreBranch(record)>>,
              resp |-> [id |-> record.razorpaySubscriptionId,
                        status |-> prov.status]]

Restore(caller, body, prov) ==
    LET o == RestoreOutcome(subs, caller, body, prov, now)
    IN  /\ subs' = o.store
        /\ last' = Completed("restore", caller, body, prov, o.code, o.calls,
                          o.resp, <<>>, now)
        /\ UNCHANGED <<cfg, users, rpCount, now, reqs>>

----------------------------------------------------------------------------
(* Signatures *)

\* createHmac('sha256', secret).update(message).digest('hex'): a value that
\* is equal for equal (secret, message) and different otherwise
Hmac(secret, message) == <<"hmac-sha256", secret, message>>

\* A signature test that looks at the key only, not at the signed body
verifySignatureKeyOnly(rawBody, signature, secret) ==
    Len(signature) = 3 /\ signature[2] = secret

verifySignature(rawBody, signature, secret) ==
    signature = Hmac(secret, rawBody)

----------------------------------------------------------------------------
(* POST verify-payment *)

\* A handler that trusts the caller's signature
VerifyPaymentOutcomeUnsigned(store, c, caller, body, t) ==
    LET record == FindOne(store, "razorpaySubscriptionId",
                          body.razorpay_subscription_id)
        stop(code) == [store |-> store, code |-> code, calls |-> <<>>,
                       resp |-> Null]
    IN  IF caller = Null THEN stop("UNAUTHORIZED")
        ELSE IF record = Null THEN stop("SUBSCRIPTION_NOT_FOUND")
        ELSE IF record.referenceId # caller THEN stop("FORBIDDEN")
        ELSE [store |-> AdapterUpdate(store, "razorpaySubscriptionId",
                            body.razorpay_subscription_id,
                            [status |-> "pending", updatedAt |-> Date(t)]),
              code |-> "OK",
              calls |-> <<"payments.fetch">>,
              resp |-> [payment_id |-> body.razorpay_payment_id,
                        subscription_id |-> body.razorpay_subscription_id]]

VerifyPaymentOutcome(store, c, caller, body, t) ==
    LET generatedSignature ==
            Hmac(c.keySecret,
                 <<body.razorpay_payment_id, "|", body.razorpay_subscription_id>>)
        record == FindOne(store, "razorpaySubscriptionId",
                          body.razorpay_subscription_id)
        stop(code) == [store |-> store, code |-> code, calls |-> <<>>,
                       resp |-> Null]
    IN  IF generatedSignature # body.razorpay_signature
        THEN stop("SIGNATURE_VERIFICATION_FAILED")
        ELSE IF caller = Null THEN stop("UNAUTHORIZED")
        ELSE IF record = Null THEN stop("SUBSCRIPTION_NOT_FOUND")
        ELSE IF record.referenceId # caller THEN stop("FORBIDDEN")
        ELSE [store |-> AdapterUpdate(store, "razorpaySubscriptionId",
                            body.razorpay_subscription_id,
                            [status |-> "pending", updatedAt |-> Date(t)]),
              code |-> "OK",
              calls |-> <<"payments.fetch">>,
              resp |-> [payment_id |-> body.razorpay_payment_id,
                        subscription_id |-> body.razorpay_subscription_id]]

VerifyPayment(caller, body) ==
    LET o == VerifyPaymentOutcome(subs, cfg, caller, body, now)
    IN  /\ cfg.keySecret # ""
        /\ subs' = o.store
        /\ last' = Completed("verify-payment", caller, body, Null, o.code, o.calls,
                          o.resp, <<>>, now)
        /\ UNCHANGED <<cfg, users, rpCount, now, reqs>>

----------------------------------------------------------------------------
(* POST webhook *)

\* A transition table whose 'paused' handler writes the status of 'pending'
eventHandlersPausedPending ==
    [subscription_authenticated |-> "pending",
     subscription_activated |-> "active",
     subscription_charged |-> "active",
     subscription_cancelled |-> "cancelled",
     subscription_paused |-> "pending",
     subscription_resumed |-> "active",
     subscription_pending |-> "pending",
     subscription_halted |-> "halted",
     subscription_expired |-> "expired"]

\* The transition table: the status argument of each event's handler
eventHandlers ==
    [subscription_authenticated |-> "pending",
     subscription_activated |-> "active",
     subscription_charged |-> "active",
     subscription_cancelled |-> "cancelled",
     subscription_paused |-> "halted",
     subscription_resumed |-> "active",
     subscription_pending |-> "pending",
     subscription_halted |-> "halted",
     subscription_expired |-> "expired"]

\* extraFields of the event's handler
ExtraFields(event, subscription) ==
    CASE event = "subscription_charged" ->
            [periodEnd |-> IF PeriodDate(subscription.current_end) # Null
                           THEN PeriodDate(subscription.current_end)
                           ELSE Undefined]
      [] event = "subscription_cancelled" -> [cancelAtPeriodEnd |-> FALSE]
      [] OTHER -> [x \in {} |-> Null]

\* A handler that writes null for a period the event does not carry
HandlerDataNullPeriods(event, subscription) ==
    ExtraFields(event, subscription)
    @@ [periodStart |-> PeriodDate(subscription.current_start),
        periodEnd |-> PeriodDate(subscription.current_end)]
    @@ [status |-> eventHandlers[event]]

\* createStatusHandler: the data written for an event
HandlerData(event, subscription) ==
    LET periodStart == PeriodDate(subscription.current_start)
        periodEnd == PeriodDate(subscription.current_end)
        ps == IF periodStart # Null THEN [periodStart |-> periodStart]
              ELSE [x \in {} |-> Null]
        pe == IF periodEnd # Null THEN [periodEnd |-> periodEnd]
              ELSE [x \in {} |-> Null]
    IN  ExtraFields(event, subscription) @@ pe @@ ps
        @@ [status |-> eventHandlers[event]]

\* An update that inserts a new row for the subscription on every event
updateSubscriptionRecordInsert(store, razorpaySubscriptionId, data, t) ==
    AdapterCreate(store,
                  [updatedAt |-> Date(t)] @@ data @@
                  FindOne(store, "razorpaySubscriptionId", razorpaySubscriptionId))

\* An update with no where clause: every record takes the written fields
updateSubscriptionRecordAll(store, razorpaySubscriptionId, data, t) ==
    [i \in 1..Len(store) |-> Merge(store[i], [updatedAt |-> Date(t)] @@ data)]

\* An update that refuses to write a record already cancelled or expired
updateSubscriptionRecordFenced(store, razorpaySubscriptionId, data, t) ==
    IF FindOne(store, "razorpaySubscriptionId", razorpaySubscriptionId).status
         \in {"cancelled", "expired"}
    THEN store
    ELSE AdapterUpdate(store, "razorpaySubscriptionId", razorpaySubscriptionId,
                       [updatedAt |-> Date(t)] @@ data)

updateSubscriptionRecord(store, razorpaySubscriptionId, data, t) ==
    AdapterUpdate(store, "razorpaySubscriptionId", razorpaySubscriptionId,
                  [updatedAt |-> Date(t)] @@ data)

\* One configured callback being awaited: mode is "none" (not configured),
\* "ok" or "throw"; the result lists the invocation and says whether an
\* error is propagating
Invoke(name, mode, status) ==
    IF mode = "none" THEN [cbs |-> <<>>, threw |-> FALSE]
    ELSE [cbs |-> <<[name |-> name, status |-> status,
                     threw |-> (mode = "throw")]>>,
          threw |-> (mode = "throw")]

\* A block that is not wrapped: its error keeps propagating
TryCatchRethrow(block) == block

\* try { block } catch { /* ignore */ } (lines 241-245, 258-282, 285-298)
TryCatch(block) == [block EXCEPT !.threw = FALSE]

\* Statements in sequence: the second runs unless the first threw
Then(first, second) ==
    IF first.threw THEN first
    ELSE [cbs |-> first.cbs \o second.cbs, threw |-> second.threw]

\* A fan-out that awaits the legacy callback before the typed ones
CallbackFanOutLegacyFirst(c, userTable, event, record, subscription) ==
    LET seen == toLocalStatus(subscription.status)
        global == TryCatch(Invoke("onEvent", c.onEvent, ""))
        typed ==
            IF event = "subscription_activated" /\ c.onSubscriptionActivated # "none"
            THEN Invoke("onSubscriptionActivated", c.onSubscriptionActivated, seen)
            ELSE IF event \in {"subscription_cancelled", "subscription_expired"}
                    /\ c.onSubscriptionCancel # "none"
            THEN Invoke("onSubscriptionCancel", c.onSubscriptionCancel, seen)
            ELSE Invoke("onSubscriptionUpdate", c.onSubscriptionUpdate, seen)
        legacy == IF record.referenceId \in userTable
                  THEN Invoke("onWebhookEvent", c.onWebhookEvent, "")
                  ELSE Invoke("onWebhookEvent", "none", "")
    IN  Then(Then(global, TryCatch(legacy)), TryCatch(typed))

\* Lines 240-298: the callbacks invoked after the store update, in order
CallbackFanOut(c, userTable, event, record, subscription) ==
    LET seen == toLocalStatus(subscription.status)
        global == TryCatch(Invoke("onEvent", c.onEvent, ""))
        typed ==
            IF event = "subscription_activated" /\ c.onSubscriptionActivated # "none"
            THEN Invoke("onSubscriptionActivated", c.onSubscriptionActivated, seen)
            ELSE IF event \in {"subscription_cancelled", "subscription_expired"}
                    /\ c.onSubscriptionCancel # "none"
            THEN Invoke("onSubscriptionCancel", c.onSubscriptionCancel, seen)
            ELSE Invoke("onSubscriptionUpdate", c.onSubscriptionUpdate, seen)
        legacy == IF record.referenceId \in userTable
                  THEN Invoke("onWebhookEvent", c.onWebhookEvent, "")
                  ELSE Invoke("onWebhookEvent", "none", "")
    IN  Then(Then(global, TryCatch(typed)), TryCatch(legacy))

\* Lines 182-305. The cbs of the result are the handler's effects in the
\* order they are awaited: the store update of line 238 (with the status it
\* writes and the status of the record read at line 208, which the handler
\* is handed), then the callbacks
processWebhookEvent(store, c, userTable, rawBody, t) ==
    LET reject(msg) == [store |-> store, cbs |-> <<>>, message |-> msg,
                        success |-> FALSE]
        event == rawBody.event
        payload == rawBody.payload
        subscriptionEntity == payload.subscription
        record == FindOne(store, "razorpaySubscriptionId", subscriptionEntity.id)
        handled == [cbs |-> <<[name |-> "updateSubscriptionRecord",
                               status |-> eventHandlers[event],
                               threw |-> FALSE,
                               was |-> record.status]>>,
                    threw |-> FALSE]
        fanOut == Then(handled, CallbackFanOut(c, userTable, event, record,
                                               subscriptionEntity))
    IN  IF ~rawBody.json THEN reject("Unexpected token")
        ELSE IF event = "" \/ payload = Null
             THEN reject("Invalid webhook payload")
        ELSE IF subscriptionEntity = Null THEN reject("Invalid webhook payload")
        ELSE IF record = Null THEN reject("Subscription record not found")
        ELSE IF record.referenceId = Null THEN reject("Invalid subscription record")
        ELSE IF event \notin DOMAIN eventHandlers
             THEN reject("Unhandled webhook event")
        ELSE [store |-> updateSubscriptionRecord(store, subscriptionEntity.id,
                            HandlerData(event, subscriptionEntity), t),
              cbs |-> fanOut.cbs,
              message |-> IF fanOut.threw THEN "callback failed" ELSE "",
              success |-> ~fanOut.threw]

\* A webhook endpoint that goes on to the signature test when no secret is
\* configured
WebhookOutcomeNoSecretTest(store, c, userTable, req, t) ==
    LET reject(msg) == [store |-> store, cbs |-> <<>>, message |-> msg,
                        success |-> FALSE]
    IN  IF req.signature = Null THEN reject("Missing webhook signature")
        ELSE IF ~verifySignature(req.rawBody, req.signature, c.webhookSecret)
             THEN reject("Invalid webhook signature")
        ELSE processWebhookEvent(store, c, userTable, req.rawBody, t)

\* Lines 161-180
WebhookOutcome(store, c, userTable, req, t) ==
    LET reject(msg) == [store |-> store, cbs |-> <<>>, message |-> msg,
                        success |-> FALSE]
    IN  IF c.webhookSecret = "" THEN reject("Webhook secret not configured")
        ELSE IF req.signature = Null THEN reject("Missing webhook signature")
        ELSE IF ~verifySignature(req.rawBody, req.signature, c.webhookSecret)
             THEN reject("Invalid webhook signature")
        ELSE processWebhookEvent(store, c, userTable, req.rawBody, t)

Webhook(req) ==
    LET o == WebhookOutcome(subs, cfg, users, req, now)
    IN  /\ subs' = o.store
        /\ last' = Completed("webhook", Null, req, Null,
                          IF o.success THEN "OK" ELSE o.message, <<>>,
                          [success |-> o.success], o.cbs, now)
        /\ UNCHANGED <<cfg, users, rpCount, now, reqs>>

----------------------------------------------------------------------------
(* GET subscription/list *)

ACTIVE_STATUSES == {"active", "trialing", "pending", "created"}

\* A listing that skips the status filter
ListOutcomeUnfiltered(c, userTable, store, caller, query) ==
    [code |-> "OK",
     resp |-> FindMany(store, "referenceId",
                       IF query.referenceId = Null THEN caller
                       ELSE query.referenceId)]

\* The whole handler: the session test, the authorization hook for a
\* reference other than the caller, the read and the status filter
ListOutcome(c, userTable, store, caller, query) ==
    LET referenceId == IF query.referenceId = Null THEN caller
                       ELSE query.referenceId
        stop(code) == [code |-> code, resp |-> Null]
        list == FindMany(store, "referenceId", referenceId)
        Listed(s) == s.status \in ACTIVE_STATUSES
    IN  IF caller = Null THEN stop("UNAUTHORIZED")
        ELSE IF /\ referenceId # caller
                /\ c.authorizeReference # "none"
                /\ caller \notin userTable
             THEN stop("USER_NOT_FOUND")
        ELSE IF /\ referenceId # caller
                /\ c.authorizeReference # "none"
                /\ AuthorizeReference(c) # "PROCEED"
             THEN stop(AuthorizeReference(c))
        ELSE [code |-> "OK", resp |-> SelectSeq(list, Listed)]

List(caller, query) ==
    LET o == ListOutcome(cfg, users, subs, caller, query)
    IN  /\ last' = Completed("list", caller, query, Null, o.code, <<>>,
                             o.resp, <<>>, now)
        /\ UNCHANGED <<cfg, users, subs, rpCount, now, reqs>>

----------------------------------------------------------------------------
(* GET get-plans *)

\* fetchPlanPrice: the price of a plan id, or undefined when the id is
\* absent or razorpay.plans.fetch throws (the error is swallowed there)
fetchPlanPrice(planId, prov) ==
    IF planId = Null \/ prov.fail THEN Null
    ELSE [amount |-> 100, currency |-> "INR", period |-> "monthly"]

GetPlansOutcome(c, prov) ==
    IF ~c.enabled THEN [code |-> "OK", calls |-> <<>>, resp |-> <<>>]
    ELSE [code |-> "OK",
          calls |-> [i \in 1..Len(c.plans) |-> "plans.fetch"],
          resp |-> [i \in 1..Len(c.plans) |->
                      [name |-> c.plans[i].name,
                       monthlyPlanId |-> c.plans[i].monthlyPlanId,
                       annualPlanId |-> c.plans[i].annualPlanId,
                       annual |-> fetchPlanPrice(c.plans[i].annualPlanId, prov),
                       monthly |-> fetchPlanPrice(c.plans[i].monthlyPlanId, prov)]]]

GetPlans(prov) ==
    LET o == GetPlansOutcome(cfg, prov)
    IN  /\ last' = Completed("get-plans", Null, Null, prov, o.code, o.calls,
                             o.resp, <<>>, now)
        /\ UNCHANGED <<cfg, users, subs, rpCount, now, reqs>>

----------------------------------------------------------------------------
(* The catch block every orchestrator endpoint ends with *)

\* A run of the handler of endpoint op in which the first statement of the
\* try block that can throw does so: the schema's parse of the request, the
\* first adapter read, or (get-plans) the plans function. Nothing was
\* written or sent before it; catch (error) returns the classified error.
HandlerThrows(op, caller, req, error) ==
    /\ last' = Completed(op, caller, req, Null, handleRazorpayError(error),
                         <<>>, Null, <<>>, now)
    /\ UNCHANGED <<cfg, users, subs, rpCount, now, reqs>>

----------------------------------------------------------------------------
(* The wall clock *)

Tick ==
    /\ now < MaxTime
    /\ now' = now + 1
    /\ UNCHANGED <<cfg, users, subs, rpCount, reqs, last>>

----------------------------------------------------------------------------
(* create-or-update suspended at its await points: the read of the        *)
(* caller's records (line 177), the provider call (line 243) and the      *)
(* local write (line 264 or 341) are separate steps, and other requests   *)
(* run in between                                                          *)

Remove(seq, i) ==
    [k \in 1..(Len(seq) - 1) |-> IF k < i THEN seq[k] ELSE seq[k + 1]]

NewRecords(pending) ==
    Cardinality({i \in 1..Len(pending) : pending[i].trial = Null})

CouBegin(caller, body) ==
    LET g == CouGate(cfg, users, subs, caller, body, [fail |-> FALSE])
    IN  /\ Len(reqs) < MaxReqs
        /\ Len(subs) + NewRecords(reqs) + (IF g.trial = Null THEN 1 ELSE 0)
              <= MaxSubs
        /\ IF g.code = "PROCEED"
           THEN /\ reqs' = Append(reqs, [plan |-> g.plan, caller |-> caller,
                                         body |-> body, trial |-> g.trial,
                                         rpSub |-> Null, pc |-> "create"])
                /\ last' = last
           ELSE /\ reqs' = reqs
                /\ last' = Completed("create-or-update", caller, body, Null,
                                     g.code, g.calls, g.resp, <<>>, now)
        /\ UNCHANGED <<cfg, users, subs, rpCount, now>>

CouCallProvider(i, prov) ==
    /\ i \in 1..Len(reqs)
    /\ reqs[i].pc = "create"
    /\ IF prov.fail
       THEN /\ reqs' = Remove(reqs, i)
            /\ rpCount' = rpCount
            /\ last' = Completed("create-or-update", reqs[i].caller,
                                 reqs[i].body, prov,
                                 handleRazorpayError(prov.error),
                                 <<"subscriptions.create">>, Null, <<>>, now)
       ELSE /\ reqs' = [reqs EXCEPT ![i].pc = "write",
                                    ![i].rpSub = RpSubscription(rpCount + 1, prov)]
            /\ rpCount' = rpCount + 1
            /\ last' = last
    /\ UNCHANGED <<cfg, users, subs, now>>

\* A write step that reads the caller's records again and gives up when a
\* live paid one has appeared since the check of line 195
CouWriteChecked(i) ==
    /\ i \in 1..Len(reqs)
    /\ reqs[i].pc = "write"
    /\ LET r == reqs[i]
           p == CouNotify(cfg, CouPersist(subs, r.trial, r.plan, r.body,
                                          r.rpSub, r.caller, now))
           taken == Len(SelectSeq(FindMany(subs, "referenceId", r.caller),
                                  IsActivePaid)) > 0
       IN  /\ subs' = IF taken THEN subs ELSE p.store
           /\ last' = Completed("create-or-update", r.caller, r.body, Null,
                                IF taken THEN "ALREADY_SUBSCRIBED" ELSE p.code,
                                <<"subscriptions.create">>,
                                IF taken THEN Null ELSE p.resp,
                                IF taken THEN <<>> ELSE p.cbs, now)
    /\ reqs' = Remove(reqs, i)
    /\ UNCHANGED <<cfg, users, rpCount, now>>

CouWrite(i) ==
    /\ i \in 1..Len(reqs)
    /\ reqs[i].pc = "write"
    /\ LET r == reqs[i]
           p == CouNotify(cfg, CouPersist(subs, r.trial, r.plan, r.body,
                                          r.rpSub, r.caller, now))
       IN  /\ subs' = p.store
           /\ last' = Completed("create-or-update", r.caller, r.body, Null,
                                p.code, <<"subscriptions.create">>, p.resp,
                                p.cbs, now)
    /\ reqs' = Remove(reqs, i)
    /\ UNCHANGED <<cfg, users, rpCount, now>>

----------------------------------------------------------------------------
(* Inputs *)

Callers == Users \cup {Null}

KnownLocalIds == {LocalId(k) : k \in 1..MaxSubs}

KnownSubIds == {SubId(k) : k \in 1..MaxSubs}

ProviderReplies(fails, statuses, periods) ==
    {r \in [error : {ProviderError}, status : statuses \cup {""}, fail : fails,
            current_start : periods \cup {0}, current_end : periods \cup {0}] :
        IF r.fail
        THEN r.status = "" /\ r.current_start = 0 /\ r.current_end = 0
        ELSE /\ r.status \in statuses
             /\ r.current_start \in periods
             /\ r.current_end \in periods}

CreateBodies(selectors, annuals, seatChoices, ids) ==
    [plan : selectors, annual : annuals, seats : seatChoices,
     embed : {FALSE}, subscriptionId : ids]

Entities(ids, statuses, periods) ==
    [id : ids, status : statuses, plan_id : {<<"plan_", "m1">>},
     current_start : periods, current_end : periods]

RawBody(event, entity) ==
    [payload |-> [subscription |-> entity], event |-> event, json |-> TRUE]

SignedWebhook(secret, event, entity) ==
    [rawBody |-> RawBody(event, entity),
     signature |-> Hmac(secret, RawBody(event, entity))]

TableEvents == DOMAIN eventHandlers

PaymentBody(sid, sig) ==
    [razorpay_subscription_id |-> sid, razorpay_payment_id |-> "pay_1",
     razorpay_signature |-> sig]

PaymentSignature(secret, sid) == Hmac(secret, <<"pay_1", "|", sid>>)

----------------------------------------------------------------------------
(* Spec: non-overlapping requests from an empty database; every handler   *)
(* runs to completion before the next request starts                      *)

Init ==
    /\ cfg = BaseCfg
    /\ users = {}
    /\ subs = <<>>
    /\ rpCount = 0
    /\ now = 0
    /\ reqs = <<>>
    /\ last = NoRequest

Next ==
    \/ \E u \in Users, failure \in {"none", "customers.create"} :
            SignUp(u, failure)
    \/ \E caller \in users,
          body \in CreateBodies({<<"Starter">>, <<"Gold">>}, {FALSE}, {1},
                                {Null} \cup KnownLocalIds),
          prov \in ProviderReplies(BOOLEAN, {"created"}, {0}) :
            CreateOrUpdate(caller, body, prov)
    \/ \E caller \in Callers, id \in KnownLocalIds,
          prov \in ProviderReplies({FALSE}, {"active"}, {0}) :
            Cancel(caller, [subscriptionId |-> id, immediately |-> FALSE], prov)
    \/ \E caller \in Users, id \in KnownLocalIds,
          prov \in ProviderReplies({FALSE}, {"active"}, {0}) :
            Restore(caller, [subscriptionId |-> id], prov)
    \/ \E caller \in Users, sid \in KnownSubIds :
            VerifyPayment(caller,
                PaymentBody(sid, PaymentSignature(cfg.keySecret, sid)))
    \/ \E event \in {"subscription_activated", "subscription_cancelled",
                     "subscription_paused"},
          entity \in Entities(KnownSubIds, {"active"}, {0}) :
            Webhook(SignedWebhook(cfg.webhookSecret, event, entity))

Spec == Init /\ [][Next]_vars

----------------------------------------------------------------------------
(* SpecCreate: sign-ups and create-or-update calls only, one after another *)

NextCreate ==
    \/ \E u \in Users, failure \in {"none", "customers.create"} :
            SignUp(u, failure)
    \/ \E caller \in Users,
          body \in CreateBodies({<<"Starter">>, <<"Gold">>}, {FALSE}, {1},
                                {Null} \cup KnownLocalIds),
          prov \in ProviderReplies(BOOLEAN, {"created", "active", "expired"}, {0}) :
            CreateOrUpdate(caller, body, prov)

SpecCreate == Init /\ [][NextCreate]_vars

----------------------------------------------------------------------------
(* SpecConc: create-or-update requests that overlap at their await points *)

NextConc ==
    \/ \E u \in Users, failure \in {"none", "customers.create"} :
            SignUp(u, failure)
    \/ \E caller \in Users,
          body \in CreateBodies({<<"Starter">>}, {FALSE}, {1}, {Null}) :
            CouBegin(caller, body)
    \/ \E i \in 1..MaxReqs,
          prov \in ProviderReplies(BOOLEAN, {"created"}, {0}) :
            CouCallProvider(i, prov)
    \/ \E i \in 1..MaxReqs : CouWrite(i)

SpecConc == Init /\ [][NextConc]_vars

----------------------------------------------------------------------------
(* SpecTable: the handlers that act on an existing record, started on a   *)
(* subscription table that already holds rows. The table belongs to the   *)
(* host application's database: the first row is a provider-linked record *)
(* of user u1 in any status, with cancelAtPeriodEnd set or not; the       *)
(* second is the sign-up trial of user u2.                                *)

LinkedRecord(owner, k, status, cancelAtPeriodEnd) ==
    [plan |-> <<"Starter">>,
     id |-> LocalId(k),
     planId |-> <<"plan_", "m1">>,
     referenceId |-> owner,
     razorpaySubscriptionId |-> SubId(k),
     status |-> status,
     trialEnd |-> Null,
     periodStart |-> Null,
     periodEnd |-> Null,
     cancelAtPeriodEnd |-> cancelAtPeriodEnd,
     seats |-> 1,
     updatedAt |-> Date(0)]

TableIds == {LocalId(1), LocalId(2)}

TableSubIds == {SubId(1), SubId(2)}

InitTable ==
    /\ cfg = BaseCfg
    /\ users = Users
    /\ \E status \in StatusSet \ {"trialing"}, cap \in BOOLEAN :
          subs = AdapterCreate(<<LinkedRecord(<<"u1">>, 1, status, cap)>>,
                               TrialRecord(<<"u2">>, Null, 0, TrialDays))
    /\ rpCount = 1
    /\ now = 0
    /\ reqs = <<>>
    /\ last = NoRequest

PeriodEvents == {"subscription_activated", "subscription_charged"}

NextTable ==
    \/ \E caller \in Users, id \in TableIds, immediately \in BOOLEAN,
          prov \in ProviderReplies(BOOLEAN, {"active"}, {0}) :
            Cancel(caller, [subscriptionId |-> id, immediately |-> immediately],
                   prov)
    \/ \E caller \in Users, id \in TableIds,
          prov \in ProviderReplies(BOOLEAN, {"active", "authenticated"}, {0}) :
            Restore(caller, [subscriptionId |-> id], prov)
    \/ \E caller \in Users, sid \in TableSubIds, secret \in {"keysec", "guess"},
          signed \in TableSubIds :
            VerifyPayment(caller,
                          PaymentBody(sid, PaymentSignature(secret, signed)))
    \/ \E event \in PeriodEvents,
          entity \in Entities({SubId(1)}, {"active"}, {0, 5}) :
            Webhook(SignedWebhook(cfg.webhookSecret, event, entity))
    \/ \E event \in (TableEvents \ PeriodEvents) \cup {"payment_captured", ""},
          entity \in Entities(TableSubIds, {"active", "completed"}, {0}) :
            Webhook(SignedWebhook(cfg.webhookSecret, event, entity))
    \/ \E event \in {"subscription_activated", "subscription_cancelled"},
          entity \in Entities({SubId(1)}, {"active"}, {0}) :
          \E signature \in {Null, Hmac("guess", RawBody(event, entity)),
                            Hmac(cfg.webhookSecret,
                                 RawBody("subscription_pending", entity))} :
            Webhook([rawBody |-> RawBody(event, entity), signature |-> signature])
    \/ Tick

SpecTable == InitTable /\ [][NextTable]_vars

----------------------------------------------------------------------------
(* SpecHooks: webhook deliveries under every combination of configured,   *)
(* absent and throwing callbacks, and with and without a webhook secret   *)

CallbackModes == {"none", "ok", "throw"}

HookConfigs ==
    {[BaseCfg EXCEPT !.onEvent = a, !.onSubscriptionActivated = b,
                     !.onSubscriptionCancel = c, !.onSubscriptionUpdate = d,
                     !.onWebhookEvent = e] :
        a \in CallbackModes, b \in CallbackModes, c \in CallbackModes,
        d \in CallbackModes, e \in CallbackModes}
    \cup {[BaseCfg EXCEPT !.webhookSecret = ""]}

InitHooks ==
    /\ cfg \in HookConfigs
    /\ users = Users
    /\ subs = <<LinkedRecord(<<"u1">>, 1, "created", FALSE)>>
    /\ rpCount = 1
    /\ now = 0
    /\ reqs = <<>>
    /\ last = NoRequest

\* Bodies that parse but lack the payload or the subscription entity, and a
\* body that does not parse
MalformedBodies ==
    {[payload |-> Null, event |-> "subscription_activated", json |-> TRUE],
     [payload |-> [subscription |-> Null], event |-> "subscription_activated",
      json |-> TRUE],
     [payload |-> Null, event |-> "", json |-> FALSE]}

NextHooks ==
    \/ \E event \in {"subscription_activated", "subscription_cancelled",
                     "subscription_paused", "payment_captured", ""},
          entity \in Entities({SubId(1), SubId(2)}, {"active"}, {0}) :
            Webhook(SignedWebhook(cfg.webhookSecret, event, entity))
    \/ \E entity \in Entities({SubId(1)}, {"active"}, {0}) :
            Webhook([rawBody |-> RawBody("subscription_activated", entity),
                     signature |-> Null])
    \/ \E body \in MalformedBodies :
            Webhook([rawBody |-> body,
                     signature |-> Hmac(cfg.webhookSecret, body)])

SpecHooks == InitHooks /\ [][NextHooks]_vars

----------------------------------------------------------------------------
(* SpecOpts: the requests of Spec under the plugin options that change    *)
(* sign-up and create-or-update: the authorization hook, the              *)
(* onSubscriptionCreated callback, createCustomerOnSignUp, the trial day  *)
(* count and the customer callbacks; every step of the sign-up hook may   *)
(* throw                                                                   *)

OptConfigs ==
    {[BaseCfg EXCEPT !.authorizeReference = a, !.onSubscriptionCreated = b] :
        a \in {"none", "allow", "deny", "throw"}, b \in CallbackModes}
    \cup {[BaseCfg EXCEPT !.createCustomerOnSignUp = x, !.trialDays = d,
                          !.getCustomerCreateParams = g, !.onCustomerCreate = g] :
            x \in BOOLEAN, d \in {0, TrialDays}, g \in {"none", "ok"}}

InitOpts ==
    /\ cfg \in OptConfigs
    /\ users = {}
    /\ subs = <<>>
    /\ rpCount = 0
    /\ now = 0
    /\ reqs = <<>>
    /\ last = NoRequest

SignUpFailures ==
    {"none", "getCustomerCreateParams", "customers.create", "adapter.update",
     "onCustomerCreate", "adapter.create"}

NextOpts ==
    \/ \E u \in Users, failure \in SignUpFailures : SignUp(u, failure)
    \/ \E caller \in users,
          body \in CreateBodies({<<"Starter">>}, {FALSE}, {1}, {Null}),
          prov \in ProviderReplies(BOOLEAN, {"created"}, {0}) :
            CreateOrUpdate(caller, body, prov)
    \/ \E caller \in users, prov \in ProviderReplies({FALSE}, {"active"}, {0}) :
            Cancel(caller, [subscriptionId |-> LocalId(1),
                            immediately |-> FALSE], prov)
    \/ \E caller \in users, prov \in ProviderReplies({FALSE}, {"active"}, {0}) :
            Restore(caller, [subscriptionId |-> LocalId(1)], prov)
    \/ \E caller \in users :
            VerifyPayment(caller,
                          PaymentBody(SubId(1),
                                      PaymentSignature(cfg.keySecret, SubId(1))))
    \/ \E event \in {"subscription_cancelled", "subscription_halted"},
          entity \in Entities({SubId(1)}, {"active"}, {0}) :
            Webhook(SignedWebhook(cfg.webhookSecret, event, entity))

SpecOpts == InitOpts /\ [][NextOpts]_vars

----------------------------------------------------------------------------
(* SpecList: listings by every caller for every reference, over a table   *)
(* whose first row is a linked record of u1 in any status and whose       *)
(* second row is u2's sign-up trial or a second linked record; webhooks   *)
(* move the first row's status between listings                           *)

ListConfigs ==
    {[BaseCfg EXCEPT !.authorizeReference = a] :
        a \in {"none", "allow", "deny", "throw"}}

InitList ==
    /\ cfg \in ListConfigs
    /\ users = Users
    /\ \E status \in StatusSet \ {"trialing"} :
          \/ subs = AdapterCreate(<<LinkedRecord(<<"u1">>, 1, status, FALSE)>>,
                                  TrialRecord(<<"u2">>, Null, 0, TrialDays))
          \/ \E owner \in Users, other \in {"active", "cancelled"} :
                subs = <<LinkedRecord(<<"u1">>, 1, status, FALSE),
                         LinkedRecord(owner, 2, other, FALSE)>>
    /\ rpCount = 2
    /\ now = 0
    /\ reqs = <<>>
    /\ last = NoRequest

NextList ==
    \/ \E caller \in Callers, referenceId \in Users \cup {Null} :
            List(caller, [referenceId |-> referenceId])
    \/ \E event \in {"subscription_halted", "subscription_expired"},
          entity \in Entities({SubId(1)}, {"active"}, {0}) :
            Webhook(SignedWebhook(cfg.webhookSecret, event, entity))

SpecList == InitList /\ [][NextList]_vars

----------------------------------------------------------------------------
(* SpecPayload: create-or-update requests of one user over every plan     *)
(* selector, billing period and seat count, with and without a sign-up    *)
(* trial, against a provider that returns mapped and unmapped statuses    *)

PayloadConfigs ==
    {[BaseCfg EXCEPT !.trialDays = d] : d \in {0, TrialDays}}

InitPayload ==
    /\ cfg \in PayloadConfigs
    /\ users = {}
    /\ subs = <<>>
    /\ rpCount = 0
    /\ now = 0
    /\ reqs = <<>>
    /\ last = NoRequest

NextPayload ==
    \/ SignUp(<<"u1">>, "none")
    \/ \E body \in CreateBodies({<<"Starter">>, <<"Pro">>, <<"plan_", "a1">>},
                                BOOLEAN, {1, 2}, {Null}),
          prov \in ProviderReplies(BOOLEAN, {"created", "authenticated",
                                             "paused", "completed"}, {0}) :
            CreateOrUpdate(<<"u1">>, body, prov)

SpecPayload == InitPayload /\ [][NextPayload]_vars

----------------------------------------------------------------------------
(* SpecFaults: the six orchestrator endpoints over a table with rows,     *)
(* with the provider failing or not, the authorization hook returning or  *)
(* throwing, the feature enabled or not, and request validation, the      *)
(* adapter or the plans function throwing                                  *)

Endpoints ==
    {"create-or-update", "cancel", "restore", "list", "get-plans",
     "verify-payment"}

\* What the request validation (a ZodError), the adapter or a hook (an Error
\* with a message, a connection error) or anything else (a thrown
\* non-object) can throw
ThrownValues ==
    {[kind |-> "zod"], [kind |-> "message"], [kind |-> "network"],
     [kind |-> "timeout"], [kind |-> "razorpay", rpCode |-> ""],
     [kind |-> "other"]}

FaultConfigs ==
    ListConfigs \cup {[BaseCfg EXCEPT !.enabled = FALSE]}

InitFaults ==
    /\ cfg \in FaultConfigs
    /\ users = Users
    /\ \E status \in {"active", "halted"}, cap \in BOOLEAN :
          subs = AdapterCreate(<<LinkedRecord(<<"u1">>, 1, status, cap)>>,
                               TrialRecord(<<"u2">>, Null, 0, TrialDays))
    /\ rpCount = 1
    /\ now = 0
    /\ reqs = <<>>
    /\ last = NoRequest

NextFaults ==
    \/ \E caller \in Users,
          body \in CreateBodies({<<"Starter">>, <<"Gold">>}, {FALSE}, {1},
                                {Null, LocalId(1)}),
          prov \in ProviderReplies(BOOLEAN, {"created"}, {0}) :
            CreateOrUpdate(caller, body, prov)
    \/ \E caller \in Callers, prov \in ProviderReplies(BOOLEAN, {"active"}, {0}) :
            Cancel(caller, [subscriptionId |-> LocalId(1),
                            immediately |-> FALSE], prov)
    \/ \E caller \in Callers, prov \in ProviderReplies(BOOLEAN, {"active"}, {0}) :
            Restore(caller, [subscriptionId |-> LocalId(1)], prov)
    \/ \E caller \in Callers, referenceId \in Users \cup {Null} :
            List(caller, [referenceId |-> referenceId])
    \/ \E prov \in ProviderReplies(BOOLEAN, {"active"}, {0}) :
            GetPlans(prov)
    \/ \E caller \in Callers, secret \in {"keysec", "guess"} :
            VerifyPayment(caller,
                          PaymentBody(SubId(1),
                                      PaymentSignature(secret, SubId(1))))
    \/ \E op \in Endpoints, caller \in Users, error \in ThrownValues :
            HandlerThrows(op, caller, Null, error)

SpecFaults == InitFaults /\ [][NextFaults]_vars

----------------------------------------------------------------------------
(* SpecParams: create-or-update requests of one user with the             *)
(* getSubscriptionCreateParams option unset, returning nothing, returning *)
(* extra notes, returning a note under a base key, or returning other     *)
(* request parameters                                                     *)

CreateParamsResults ==
    {Null,
     [params |-> Null],
     [params |-> [notes |-> [campaign |-> <<"spring">>]]],
     [params |-> [notes |-> [planName |-> <<"Custom">>]]],
     [params |-> [offer_id |-> <<"offer_", "1">>]]}

ParamsConfigs ==
    {BaseCfg} \cup
    {[BaseCfg EXCEPT !.getSubscriptionCreateParams = [returns |-> r]] :
        r \in CreateParamsResults}

InitParams ==
    /\ cfg \in ParamsConfigs
    /\ users = {}
    /\ subs = <<>>
    /\ rpCount = 0
    /\ now = 0
    /\ reqs = <<>>
    /\ last = NoRequest

NextParams ==
    \/ SignUp(<<"u1">>, "none")
    \/ \E body \in CreateBodies({<<"Starter">>, <<"Pro">>}, BOOLEAN, {1, 2},
                                {Null}),
          prov \in ProviderReplies(BOOLEAN, {"created"}, {0}) :
            CreateOrUpdate(<<"u1">>, body, prov)

SpecParams == InitParams /\ [][NextParams]_vars

----------------------------------------------------------------------------
(* SpecPlans: create-or-update requests of one user over plan lists whose *)
(* names and ids overlap: a plan named like another plan's id, a plan     *)
(* whose id reads like another plan's name, a plan whose name differs     *)
(* only by case and which shares an annual id, in either order            *)

NamedLikeAnId ==
    [name |-> <<"plan_", "m1">>, monthlyPlanId |-> <<"plan_", "x1">>,
     annualPlanId |-> Null]

IdLikeAName ==
    [name |-> <<"Gold">>, monthlyPlanId |-> <<"Starter">>,
     annualPlanId |-> Null]

LowerCaseTwin ==
    [name |-> <<"starter">>, monthlyPlanId |-> <<"plan_", "m3">>,
     annualPlanId |-> <<"plan_", "a1">>]

PlanLists ==
    {<<StarterPlan, ProPlan>>, <<NamedLikeAnId, StarterPlan>>,
     <<IdLikeAName, StarterPlan>>, <<LowerCaseTwin, StarterPlan>>,
     <<StarterPlan, LowerCaseTwin>>}

PlanSelectors ==
    {<<"Starter">>, <<"starter">>, <<"Gold">>, <<"Enterprise">>,
     <<"plan_", "m1">>, <<"plan_", "a1">>, <<"plan_", "zz">>}

InitPlans ==
    /\ cfg \in {[BaseCfg EXCEPT !.plans = l] : l \in PlanLists}
    /\ users = {}
    /\ subs = <<>>
    /\ rpCount = 0
    /\ now = 0
    /\ reqs = <<>>
    /\ last = NoRequest

NextPlans ==
    \/ SignUp(<<"u1">>, "none")
    \/ \E body \in CreateBodies(PlanSelectors, {FALSE}, {1}, {Null}),
          prov \in ProviderReplies(BOOLEAN, {"created"}, {0}) :
            CreateOrUpdate(<<"u1">>, body, prov)

SpecPlans == InitPlans /\ [][NextPlans]_vars

----------------------------------------------------------------------------
(* SpecPeriods: signed deliveries of every table event for one stored     *)
(* record, with current_start and current_end each absent or one of two   *)
(* values                                                                 *)

PeriodChoices == {0, 5, 9}

InitPeriods ==
    /\ cfg = BaseCfg
    /\ users = Users
    /\ subs = <<LinkedRecord(<<"u1">>, 1, "created", FALSE)>>
    /\ rpCount = 1
    /\ now = 0
    /\ reqs = <<>>
    /\ last = NoRequest

NextPeriods ==
    \E event \in TableEvents,
       entity \in Entities({SubId(1)}, {"active"}, PeriodChoices) :
        Webhook(SignedWebhook(cfg.webhookSecret, event, entity))

SpecPeriods == InitPeriods /\ [][NextPeriods]_vars

----------------------------------------------------------------------------
(* SpecOrphans: create-or-update requests of two users, with and without  *)
(* a sign-up trial and with the created-callback returning or throwing,   *)
(* against a provider that accepts or refuses and an adapter whose write  *)
(* succeeds or throws                                                     *)

OrphanConfigs ==
    {[BaseCfg EXCEPT !.trialDays = d, !.onSubscriptionCreated = cb] :
        d \in {0, TrialDays}, cb \in {"ok", "throw"}}

InitOrphans ==
    /\ cfg \in OrphanConfigs
    /\ users = {}
    /\ subs = <<>>
    /\ rpCount = 0
    /\ now = 0
    /\ reqs = <<>>
    /\ last = NoRequest

NextOrphans ==
    \/ \E u \in Users : SignUp(u, "none")
    \/ \E u \in Users,
          body \in CreateBodies({<<"Starter">>, <<"Pro">>}, {FALSE}, {1},
                                {Null}),
          prov \in ProviderReplies(BOOLEAN, {"created"}, {0}) :
            CreateOrUpdate(u, body, prov)
    \/ \E u \in Users,
          body \in CreateBodies({<<"Starter">>}, {FALSE}, {1}, {Null}),
          prov \in ProviderReplies({FALSE}, {"created"}, {0}),
          error \in {[kind |-> "message"], [kind |-> "network"]} :
            CreateOrUpdateWriteThrows(u, body, prov, error)

SpecOrphans == InitOrphans /\ [][NextOrphans]_vars

----------------------------------------------------------------------------
(* SpecStatus: signed deliveries of every table event for one stored      *)
(* record, the payload reporting a provider status the translation maps   *)
(* or one it does not, with each subscription callback configured or not  *)

StatusConfigs ==
    {[BaseCfg EXCEPT !.onSubscriptionActivated = a,
                     !.onSubscriptionCancel = b,
                     !.onSubscriptionUpdate = c] :
        a \in {"none", "ok"}, b \in {"none", "ok"}, c \in {"none", "ok"}}

ProviderStatuses == {"active", "paused", "cancelled", "expired"}

InitStatus ==
    /\ cfg \in StatusConfigs
    /\ users = Users
    /\ subs = <<LinkedRecord(<<"u1">>, 1, "created", FALSE)>>
    /\ rpCount = 1
    /\ now = 0
    /\ reqs = <<>>
    /\ last = NoRequest

NextStatus ==
    \E event \in TableEvents,
       entity \in Entities({SubId(1)}, ProviderStatuses, {0}) :
        Webhook(SignedWebhook(cfg.webhookSecret, event, entity))

SpecStatus == InitStatus /\ [][NextStatus]_vars

----------------------------------------------------------------------------
(* Properties *)

Range(seq) == {seq[i] : i \in 1..Len(seq)}

\* The statuses the data model counts as live
LiveStatuses == {"active", "trialing", "pending", "created", "halted"}

\* The rows of a reference's live paid records
LivePaid(store, ref) ==
    {i \in 1..Len(store) :
        /\ store[i].referenceId = ref
        /\ store[i].razorpaySubscriptionId # Null
        /\ store[i].status \in LiveStatuses}

AtMostOneLivePaid ==
    \A u \in Users : Cardinality(LivePaid(subs, u)) <= 1

\* The rows of a reference's app-level trial records
TrialRows(store, ref) ==
    {i \in 1..Len(store) :
        /\ store[i].referenceId = ref
        /\ store[i].status = "trialing"
        /\ store[i].razorpaySubscriptionId = Null}

\* A create-or-update request that gets as far as the listing of the
\* caller's records: the plan resolves, the caller has a user row, and the
\* request names no record or names the caller's own unlinked record
ReachesListCheck(store, userTable, c, caller, body) ==
    /\ ResolvePlan(c.plans, body.plan) # Null
    /\ caller \in userTable
    /\ \/ body.subscriptionId = Null
       \/ LET e == FindOne(store, "id", body.subscriptionId)
          IN  /\ e # Null
              /\ e.referenceId = caller
              /\ e.razorpaySubscriptionId = Null

\* C1, as stated: with only sign-up and sequential create-or-update calls a
\* reference never has two live paid records, and every create-or-update
\* call made while the caller has one returns ALREADY_SUBSCRIBED, does not
\* call subscriptions.create and writes nothing.
C1_AlwaysAlreadySubscribed ==
    /\ []AtMostOneLivePaid
    /\ [][(last'.op = "create-or-update" /\ LivePaid(subs, last'.caller) # {})
            => /\ last'.code = "ALREADY_SUBSCRIBED"
               /\ "subscriptions.create" \notin Range(last'.calls)
               /\ subs' = subs]_vars

\* C1, amended: with only sign-up and sequential create-or-update calls a
\* reference never has two live paid records; a create-or-update call made
\* while the caller has one never calls subscriptions.create and writes
\* nothing, and it returns ALREADY_SUBSCRIBED when it gets as far as the
\* listing of the caller's records. (A call that fails an earlier check
\* returns that check's error, and a call naming the caller's own linked
\* record returns that record after subscriptions.fetch.)
C1_NoSecondLivePaid ==
    /\ []AtMostOneLivePaid
    /\ [][(last'.op = "create-or-update" /\ LivePaid(subs, last'.caller) # {})
            => /\ "subscriptions.create" \notin Range(last'.calls)
               /\ subs' = subs
               /\ rpCount' = rpCount
               /\ ReachesListCheck(subs, users, cfg, last'.caller, last'.req)
                    => (last'.code = "ALREADY_SUBSCRIBED" /\ last'.calls = <<>>)
               /\ last'.code = "OK"
                    => last'.calls = <<"subscriptions.fetch">>]_vars

\* A call refused with ALREADY_SUBSCRIBED while the caller has a live paid
\* record
C1_Refused ==
    /\ last.op = "create-or-update"
    /\ last.code = "ALREADY_SUBSCRIBED"
    /\ LivePaid(subs, last.caller) # {}

\* C2: under every sequence of non-overlapping operations (sign-up,
\* create-or-update, cancel, restore, verify-payment, webhooks delayed,
\* reordered or duplicated) a reference has at most one live paid record.
C2_OneLivePaidAlways ==
    \A u \in Users :
        \A i, j \in LivePaid(subs, u) : i = j

\* C3: the already-subscribed check is a read followed, after the provider
\* call, by a write that takes no lock and does not read again: a request
\* that passed the check always lands its record, whatever was written in
\* between.
C3_WriteNotGuarded ==
    [][\A i \in 1..MaxReqs :
          (i <= Len(reqs) /\ reqs[i].pc = "write" /\ reqs' = Remove(reqs, i))
            => LET r == FindOne(subs', "razorpaySubscriptionId", reqs[i].rpSub.id)
               IN  /\ r # Null
                   /\ r.referenceId = reqs[i].caller
                   /\ last'.code = "OK"
                   /\ last'.calls = <<"subscriptions.create">>]_vars

\* Two interleaved requests have both passed the check, both called
\* subscriptions.create, and the reference has two live paid records
C3_TwoLivePaid ==
    /\ \E u \in Users : Cardinality(LivePaid(subs, u)) >= 2
    /\ rpCount >= 2
    /\ last.op = "create-or-update"
    /\ last.code = "OK"

\* C4: a successful create-or-update for a reference with exactly one
\* app-level trial record and no live paid record keeps the number of
\* records, keeps that record's local id, leaves the other records alone
\* and puts the new provider subscription id on that record.
C4_TrialUpgradeIsMerge ==
    [][\A i \in 1..MaxSubs :
          (/\ last'.op = "create-or-update"
           /\ last'.calls = <<"subscriptions.create">>
           /\ rpCount' = rpCount + 1
           /\ TrialRows(subs, last'.caller) = {i}
           /\ LivePaid(subs, last'.caller) = {})
            => /\ last'.code = "OK"
               /\ Len(subs') = Len(subs)
               /\ subs'[i].id = subs[i].id
               /\ subs'[i].referenceId = subs[i].referenceId
               /\ subs'[i].razorpaySubscriptionId = SubId(rpCount')
               /\ last'.resp.subscriptionId = subs[i].id
               /\ last'.resp.razorpaySubscriptionId = SubId(rpCount')
               /\ \A j \in 1..Len(subs) : j # i => subs'[j] = subs[j]]_vars

\* A trial record that has been upgraded in place: it still has its trial
\* end date and now carries the provider id the response reports
C4_Upgraded ==
    /\ last.op = "create-or-update"
    /\ last.code = "OK"
    /\ \E i \in 1..Len(subs) :
          /\ subs[i].id = last.resp.subscriptionId
          /\ subs[i].trialEnd # Null
          /\ subs[i].razorpaySubscriptionId = last.resp.razorpaySubscriptionId
          /\ subs[i].razorpaySubscriptionId # Null

\* The store with every record's updatedAt blanked
StripUpdatedAt(store) ==
    [i \in 1..Len(store) |-> [store[i] EXCEPT !.updatedAt = Null]]

\* A step that serves the same accepted subscription.activated delivery as
\* the request served just before it
SecondActivatedDelivery ==
    /\ now' = now
    /\ last.op = "webhook"
    /\ last.code = "OK"
    /\ last.req.rawBody.event = "subscription_activated"
    /\ last'.op = "webhook"
    /\ last'.req = last.req

\* C5, as stated: delivering the same subscription.activated event a second
\* time leaves the record exactly as the first delivery left it.
C5_SecondDeliveryChangesNothing ==
    [][SecondActivatedDelivery => subs' = subs]_vars

\* C5, amended: delivering the same subscription.activated event a second
\* time is accepted again and leaves every record as the first delivery
\* left it, except that the record's updatedAt is set to the time of the
\* second delivery.
C5_SecondDeliveryOnlyRefreshes ==
    [][SecondActivatedDelivery
         => /\ last'.code = "OK"
            /\ Len(subs') = Len(subs)
            /\ StripUpdatedAt(subs') = StripUpdatedAt(subs)
            /\ FindOne(subs', "razorpaySubscriptionId",
                       last'.req.rawBody.payload.subscription.id).updatedAt
                 = Date(now)]_vars

\* A subscription.activated event delivered twice in a row, the second time
\* after the clock has moved
C5_DeliveredTwice ==
    /\ last.op = "webhook"
    /\ last.code = "OK"
    /\ last.req.rawBody.event = "subscription_activated"
    /\ last.repeat
    /\ last.at > 0
    /\ FindOne(subs, "razorpaySubscriptionId",
               last.req.rawBody.payload.subscription.id).status = "active"

AimedAtForeignRecord ==
    /\ now' = now
    /\ last'.op \in {"cancel", "restore", "create-or-update"}
    /\ last'.req.subscriptionId # Null
    /\ LET r == FindOne(subs, "id", last'.req.subscriptionId)
       IN  r # Null /\ r.referenceId # last'.caller

\* C7, as stated: cancel, restore or create-or-update (with subscriptionId)
\* aimed at a record of another reference always returns FORBIDDEN or
\* UNAUTHORIZED, calls no provider operation and leaves the store unchanged.
C7_ForeignAlwaysForbidden ==
    [][AimedAtForeignRecord
         => /\ last'.code \in {"FORBIDDEN", "UNAUTHORIZED"}
            /\ last'.calls = <<>>
            /\ subs' = subs
            /\ rpCount' = rpCount]_vars

\* C7, amended: such a request always fails, calls no provider operation
\* and leaves the store unchanged; cancel and restore return FORBIDDEN or
\* UNAUTHORIZED, and create-or-update returns FORBIDDEN or UNAUTHORIZED
\* unless one of its earlier checks fails first (subscriptions disabled,
\* plan not found, user row not found, authorization hook error), in which
\* case it returns that check's error.
C7_ForeignNeverServed ==
    [][AimedAtForeignRecord
         => /\ last'.code # "OK"
            /\ last'.calls = <<>>
            /\ last'.resp = Null
            /\ subs' = subs
            /\ rpCount' = rpCount
            /\ last'.op \in {"cancel", "restore"}
                 => last'.code \in {"FORBIDDEN", "UNAUTHORIZED"}
            /\ last'.op = "create-or-update"
                 => /\ last'.code \in {"FORBIDDEN", "UNAUTHORIZED",
                                       "SUBSCRIPTION_DISABLED", "PLAN_NOT_FOUND",
                                       "USER_NOT_FOUND", "UNKNOWN_ERROR"}
                    /\ (/\ cfg.enabled
                        /\ ResolvePlan(cfg.plans, last'.req.plan) # Null
                        /\ last'.caller \in users
                        /\ cfg.authorizeReference = "none")
                         => last'.code = "FORBIDDEN"]_vars

\* A request aimed at another reference's record has been refused with
\* FORBIDDEN
C7_Refused ==
    /\ last.op \in {"cancel", "restore", "create-or-update"}
    /\ last.code = "FORBIDDEN"
    /\ last.calls = <<>>
    /\ LET r == FindOne(subs, "id", last.req.subscriptionId)
       IN  r # Null /\ r.referenceId # last.caller

\* A restore step by the owner of a record linked to the provider
OwnerRestores(r) ==
    /\ now' = now
    /\ last'.op = "restore"
    /\ r = FindOne(subs, "id", last'.req.subscriptionId)
    /\ r # Null
    /\ r.referenceId = last'.caller
    /\ r.razorpaySubscriptionId # Null

C9_CancelRecordsFlag ==
    (last.op = "cancel" /\ last.code = "OK")
      => LET r == FindOne(subs, "id", last.req.subscriptionId)
         IN  /\ r.cancelAtPeriodEnd = ~last.req.immediately
             /\ r.updatedAt = Date(last.at)

\* C10: after a successful restore, by either branch, the record with the
\* request's local id has cancelAtPeriodEnd = false and an updatedAt of the
\* time of the request, and the response is the provider's {id, status}.
C10_RestoreClearsFlag ==
    (last.op = "restore" /\ last.code = "OK")
      => LET r == FindOne(subs, "id", last.req.subscriptionId)
         IN  /\ r.cancelAtPeriodEnd = FALSE
             /\ r.updatedAt = Date(last.at)
             /\ last.resp = [id |-> r.razorpaySubscriptionId,
                             status |-> last.provider.status]

\* A successful restore through resume, served after the clock has moved
C10_Resumed ==
    /\ last.op = "restore"
    /\ last.code = "OK"
    /\ last.calls = <<"subscriptions.resume">>
    /\ last.at > 0
    /\ FindOne(subs, "id", last.req.subscriptionId).updatedAt = Date(last.at)

\* The status the data model's transition table gives for an event name
TableStatus(event) ==
    CASE event = "subscription_authenticated" -> "pending"
      [] event = "subscription_activated" -> "active"
      [] event = "subscription_charged" -> "active"
      [] event = "subscription_paused" -> "halted"
      [] event = "subscription_resumed" -> "active"
      [] event = "subscription_pending" -> "pending"
      [] event = "subscription_halted" -> "halted"
      [] event = "subscription_cancelled" -> "cancelled"
      [] event = "subscription_expired" -> "expired"
      [] OTHER -> "none"

\* A step serving a verified webhook with a table event for the provider
\* id of stored record r
VerifiedForRecord(r) ==
    /\ now' = now
    /\ last'.op = "webhook"
    /\ last'.req.signature = Hmac(cfg.webhookSecret, last'.req.rawBody)
    /\ cfg.webhookSecret # ""
    /\ TableStatus(last'.req.rawBody.event) # "none"
    /\ r.razorpaySubscriptionId = last'.req.rawBody.payload.subscription.id

\* C11: a verified webhook for a stored record sets the record's status to
\* the status the transition table gives for the event name, from every
\* prior status and whatever status the payload reports; a cancelled event
\* also sets cancelAtPeriodEnd to false.
C11_StatusByEventName ==
    [][\A i \in 1..MaxSubs :
          (i <= Len(subs) /\ VerifiedForRecord(subs[i]))
            => /\ last'.code = "OK"
               /\ subs'[i].status = TableStatus(last'.req.rawBody.event)
               /\ last'.req.rawBody.event = "subscription_cancelled"
                    => subs'[i].cancelAtPeriodEnd = FALSE
               /\ subs'[i].id = subs[i].id]_vars

\* A paused event has been accepted for a record and the record is halted
C11_Paused ==
    /\ last.op = "webhook"
    /\ last.code = "OK"
    /\ last.req.rawBody.event = "subscription_paused"
    /\ FindOne(subs, "razorpaySubscriptionId",
               last.req.rawBody.payload.subscription.id).status = "halted"

\* The configuration with every throwing callback replaced by one that
\* returns normally
Calm(c) ==
    [k \in DOMAIN c |->
        IF k \in {"onEvent", "onSubscriptionActivated", "onSubscriptionCancel",
                  "onSubscriptionUpdate", "onWebhookEvent"} /\ c[k] = "throw"
        THEN "ok" ELSE c[k]]

Names(effects) == [i \in 1..Len(effects) |-> effects[i].name]

\* The last request was a webhook delivery that passes every test of the
\* endpoint: secret configured, signature valid, body well formed, record
\* known, event in the transition table
AcceptableDelivery ==
    /\ last.op = "webhook"
    /\ cfg.webhookSecret # ""
    /\ last.req.signature = Hmac(cfg.webhookSecret, last.req.rawBody)
    /\ last.req.rawBody.json
    /\ TableStatus(last.req.rawBody.event) # "none"
    /\ last.req.rawBody.payload # Null
    /\ last.req.rawBody.payload.subscription # Null
    /\ FindOne(subs, "razorpaySubscriptionId",
               last.req.rawBody.payload.subscription.id) # Null

\* C12: whichever configured callbacks throw, an acceptable delivery returns
\* success true, the store update is kept, and exactly the callbacks that
\* would run if none threw are invoked, in the same order.
C12_CallbacksIsolated ==
    AcceptableDelivery
      => LET body == last.req.rawBody
             entity == body.payload.subscription
             record == FindOne(subs, "razorpaySubscriptionId", entity.id)
         IN  /\ last.code = "OK"
             /\ last.resp = [success |-> TRUE]
             /\ record.status = TableStatus(body.event)
             /\ record.updatedAt = Date(last.at)
             /\ Names(last.cbs)
                  = <<"updateSubscriptionRecord">>
                    \o Names(CallbackFanOut(Calm(cfg), users, body.event,
                                            record, entity).cbs)
             /\ \A i \in 2..Len(last.cbs) :
                  last.cbs[i].threw = (cfg[last.cbs[i].name] = "throw")

\* A delivery in which the global and the typed callback both threw and the
\* legacy callback was still invoked
C12_ThrewTwice ==
    /\ AcceptableDelivery
    /\ last.code = "OK"
    /\ Len(last.cbs) = 4
    /\ last.cbs[2].threw
    /\ last.cbs[3].threw
    /\ last.cbs[4].name = "onWebhookEvent"

\* The place of an effect in the documented order
Rank(name) ==
    CASE name = "updateSubscriptionRecord" -> 0
      [] name = "onEvent" -> 1
      [] name \in {"onSubscriptionActivated", "onSubscriptionCancel",
                   "onSubscriptionUpdate"} -> 2
      [] name = "onWebhookEvent" -> 3
      [] OTHER -> 4

\* C13: the effects of an accepted delivery are, in order, the store update,
\* then onEvent, then at most one of the activation / cancellation /
\* generic-update callbacks, then onWebhookEvent; the store update comes
\* first.
C13_FanOutOrder ==
    (last.op = "webhook" /\ last.code = "OK")
      => /\ Len(last.cbs) >= 1
         /\ last.cbs[1].name = "updateSubscriptionRecord"
         /\ \A i, j \in 1..Len(last.cbs) :
              i < j => Rank(last.cbs[i].name) < Rank(last.cbs[j].name)
         /\ \A i \in 1..Len(last.cbs) : Rank(last.cbs[i].name) < 4

\* A delivery with all four effects
C13_AllFour ==
    /\ last.op = "webhook"
    /\ last.code = "OK"
    /\ Names(last.cbs) = <<"updateSubscriptionRecord", "onEvent",
                           "onSubscriptionCancel", "onWebhookEvent">>

\* A webhook step whose request the endpoint must reject for one of: no
\* secret configured, no signature header, event or subscription entity
\* missing, no record with the event's provider id, event outside the table
MustReject ==
    /\ now' = now
    /\ last'.op = "webhook"
    /\ LET body == last'.req.rawBody
       IN  \/ cfg.webhookSecret = ""
           \/ last'.req.signature = Null
           \/ body.event = ""
           \/ body.payload = Null
           \/ body.payload.subscription = Null
           \/ FindOne(subs, "razorpaySubscriptionId",
                      body.payload.subscription.id) = Null
           \/ TableStatus(body.event) = "none"

\* C14: such a delivery returns success false, changes no stored record and
\* invokes no callback.
C14_RejectedUntouched ==
    [][MustReject
         => /\ last'.resp = [success |-> FALSE]
            /\ last'.code # "OK"
            /\ last'.cbs = <<>>
            /\ subs' = subs
            /\ users' = users]_vars

\* A validly signed event outside the transition table, for a known record,
\* has been rejected as unhandled
C14_Unhandled ==
    /\ last.op = "webhook"
    /\ last.code = "Unhandled webhook event"
    /\ last.req.signature = Hmac(cfg.webhookSecret, last.req.rawBody)
    /\ FindOne(subs, "razorpaySubscriptionId",
               last.req.rawBody.payload.subscription.id) # Null
    /\ last.cbs = <<>>

\* C15: when razorpay.subscriptions.create throws, create-or-update answers
\* with the error code the classifier gives the thrown value, returns no
\* data, and leaves every stored record and the provider's subscriptions as
\* they were.
C15_ProviderFailureWritesNothing ==
    [][(/\ last'.op = "create-or-update"
        /\ last'.calls = <<"subscriptions.create">>
        /\ last'.provider.fail)
         => /\ last'.code = handleRazorpayError(last'.provider.error)
            /\ last'.code # "OK"
            /\ last'.resp = Null
            /\ last'.cbs = <<>>
            /\ subs' = subs
            /\ rpCount' = rpCount]_vars

\* The provider refused a subscription for a caller on an app-level trial,
\* and the trial record is still unlinked
C15_FailedOnTrial ==
    /\ last.op = "create-or-update"
    /\ last.calls = <<"subscriptions.create">>
    /\ last.provider.fail
    /\ last.code = "BAD_REQUEST_ERROR"
    /\ TrialRows(subs, last.caller) # {}

\* A create-or-update request that reaches the update path with a record
\* the caller owns and that is linked to a provider subscription
ReachesUpdatePath(store, userTable, c, caller, body) ==
    /\ ResolvePlan(c.plans, body.plan) # Null
    /\ caller \in userTable
    /\ body.subscriptionId # Null
    /\ LET e == FindOne(store, "id", body.subscriptionId)
       IN  /\ e # Null
           /\ e.referenceId = caller
           /\ e.razorpaySubscriptionId # Null

C16_CreatedCallbackSwallowed ==
    (/\ last.op = "create-or-update"
     /\ \E i \in 1..Len(last.cbs) :
           last.cbs[i].name = "onSubscriptionCreated" /\ last.cbs[i].threw)
      => /\ last.code = "OK"
         /\ last.resp.subscriptionId # Null
         /\ last.resp.razorpaySubscriptionId # Null

\* C17: with an authorization hook that returns false or throws, every
\* create-or-update request is denied (FORBIDDEN when the hook returns
\* false, the classified error when it throws), calls no provider operation
\* and leaves the stored records as they were.
C17_AuthorizationFailsClosed ==
    [][(/\ last'.op = "create-or-update"
        /\ cfg.authorizeReference \in {"deny", "throw"})
         => /\ last'.code # "OK"
            /\ last'.resp = Null
            /\ last'.calls = <<>>
            /\ last'.cbs = <<>>
            /\ subs' = subs
            /\ rpCount' = rpCount
            /\ (/\ ResolvePlan(cfg.plans, last'.req.plan) # Null
                /\ last'.caller \in users)
                 => last'.code = IF cfg.authorizeReference = "deny"
                                 THEN "FORBIDDEN"
                                 ELSE handleRazorpayError([kind |-> "message"])]_vars

\* A signed-up caller on a trial asked for a plan while the authorization
\* hook throws, and was turned away with the trial record still unlinked
C17_HookThrewDenied ==
    /\ last.op = "create-or-update"
    /\ cfg.authorizeReference = "throw"
    /\ last.caller \in users
    /\ last.code = "UNKNOWN_ERROR"
    /\ last.calls = <<>>
    /\ TrialRows(subs, last.caller) # {}

\* C19: a sign-up completes normally and the user exists, whichever step of
\* the customer-provisioning hook throws; the steps after the throwing one
\* are not run.
C19_SignUpNeverFails ==
    [][last'.op = "signup"
         => /\ last'.code = "OK"
            /\ last'.caller \in users'
            /\ last'.req.failure # "none"
                 => /\ last'.calls # <<>>
                    /\ last'.calls[Len(last'.calls)] = last'.req.failure
                    /\ subs' = subs]_vars

\* A sign-up whose trial-record creation threw: the user exists, the
\* sign-up succeeded, and there is no trial record
C19_TrialCreationThrew ==
    /\ last.op = "signup"
    /\ last.req.failure = "adapter.create"
    /\ last.code = "OK"
    /\ last.caller \in users
    /\ TrialRows(subs, last.caller) = {}

TrialCount(store, ref) == Cardinality(TrialRows(store, ref))

C21_IdAndReferenceFixed ==
    [][/\ Len(subs') >= Len(subs)
       /\ \A i \in 1..Len(subs) :
            /\ subs'[i].id = subs[i].id
            /\ subs'[i].referenceId = subs[i].referenceId]_vars

\* A record created as a sign-up trial, upgraded in place and then written
\* by a webhook still has the id the adapter gave it and its owner
C21_UpgradedThenNotified ==
    /\ last.op = "webhook"
    /\ last.code = "OK"
    /\ \E i \in 1..Len(subs) :
          /\ subs[i].razorpaySubscriptionId
               = last.req.rawBody.payload.subscription.id
          /\ subs[i].trialEnd # Null
          /\ subs[i].status = "cancelled"
          /\ subs[i].id = LocalId(i)
          /\ subs[i].referenceId \in users

\* The provider subscription id a delivery is about, Null when its body
\* carries none
EventSubscriptionId(req) ==
    IF req.rawBody.payload = Null THEN Null
    ELSE IF req.rawBody.payload.subscription = Null THEN Null
    ELSE req.rawBody.payload.subscription.id

\* C22: a webhook delivery leaves unchanged every stored record whose
\* razorpaySubscriptionId differs from the event's subscription id, the
\* records without a provider id included, and never adds or removes a
\* record.
C22_OnlyTheKeyedRecord ==
    [][last'.op = "webhook"
         => /\ Len(subs') = Len(subs)
            /\ \A i \in 1..Len(subs) :
                 subs[i].razorpaySubscriptionId # EventSubscriptionId(last'.req)
                   => subs'[i] = subs[i]]_vars

\* An accepted delivery has written the record with the event's provider id
\* while another record, one without a provider id, is stored next to it
C22_NeighbourKept ==
    /\ last.op = "webhook"
    /\ last.code = "OK"
    /\ \E i, j \in 1..Len(subs) :
          /\ subs[i].razorpaySubscriptionId = EventSubscriptionId(last.req)
          /\ subs[i].status = "halted"
          /\ subs[i].updatedAt = Date(last.at)
          /\ last.at > 0
          /\ subs[j].razorpaySubscriptionId = Null
          /\ subs[j].status = "trialing"
          /\ subs[j].updatedAt = Date(0)

\* C23: a delivery of subscription.activated, subscription.cancelled or
\* subscription.expired never invokes onSubscriptionUpdate, whichever other
\* callbacks are configured.
C23_UpdateOnlyForOtherEvents ==
    (/\ last.op = "webhook"
     /\ last.req.rawBody.event \in {"subscription_activated",
                                    "subscription_cancelled",
                                    "subscription_expired"})
      => \A i \in 1..Len(last.cbs) : last.cbs[i].name # "onSubscriptionUpdate"

\* The reference a listing is about: the query's, the caller by default
RequestedReference(request) ==
    IF request.req.referenceId = Null THEN request.caller
    ELSE request.req.referenceId

\* C24: every record a successful subscription/list returns is a stored
\* record of the requested reference (the caller by default) with a live
\* status, never cancelled, completed or expired; and a listing changes no
\* stored record.
C24_ListOnlyLiveOfReference ==
    /\ []((last.op = "list" /\ last.code = "OK")
            => \A i \in 1..Len(last.resp) :
                 /\ last.resp[i] \in Range(subs)
                 /\ last.resp[i].referenceId = RequestedReference(last)
                 /\ last.resp[i].status \in LiveStatuses
                 /\ last.resp[i].status \notin {"cancelled", "completed",
                                                "expired"})
    /\ [][last'.op = "list" => subs' = subs /\ users' = users]_vars

\* A listing for a reference with a live record and a cancelled one has
\* returned the live record alone
C24_CancelledLeftOut ==
    /\ last.op = "list"
    /\ last.code = "OK"
    /\ Len(last.resp) = 1
    /\ \E i \in 1..Len(subs) :
          /\ subs[i].referenceId = RequestedReference(last)
          /\ subs[i].status = "cancelled"

\* C25: a verify-payment request whose signature is not the HMAC-SHA256 of
\* "payment_id|subscription_id" under the API key secret is answered with
\* SIGNATURE_VERIFICATION_FAILED, calls no provider operation and changes no
\* record; and any verify-payment request changes only records whose
\* referenceId is the caller.
C25_PaymentSignatureRequired ==
    [][last'.op = "verify-payment"
         => /\ last'.req.razorpay_signature
                 # Hmac(cfg.keySecret, <<last'.req.razorpay_payment_id, "|",
                                         last'.req.razorpay_subscription_id>>)
                 => /\ last'.code = "SIGNATURE_VERIFICATION_FAILED"
                    /\ last'.resp = Null
                    /\ last'.calls = <<>>
                    /\ subs' = subs
            /\ Len(subs') = Len(subs)
            /\ \A i \in 1..Len(subs) :
                 subs'[i] # subs[i] => subs[i].referenceId = last'.caller]_vars

\* The owner of a record sent its provider id with a signature made under
\* the right key for another subscription id, and was refused
C25_WrongMessageRefused ==
    /\ last.op = "verify-payment"
    /\ last.code = "SIGNATURE_VERIFICATION_FAILED"
    /\ last.req.razorpay_signature[2] = cfg.keySecret
    /\ \E i \in 1..Len(subs) :
          /\ subs[i].razorpaySubscriptionId = last.req.razorpay_subscription_id
          /\ subs[i].referenceId = last.caller
          /\ subs[i].status = "active"

\* C27: a cancel call, immediate or at period end, successful or not, leaves
\* every record's status, plan, plan id, trial and period dates and seats
\* as they were.
C27_CancelKeepsStatus ==
    [][last'.op = "cancel"
         => /\ Len(subs') = Len(subs)
            /\ \A i \in 1..Len(subs) :
                 \A f \in {"status", "plan", "planId", "trialEnd",
                           "periodStart", "periodEnd", "seats"} :
                    subs'[i][f] = subs[i][f]]_vars

\* The owner's immediate cancel was accepted by the provider and the stored
\* record is still active
C27_CancelledStillActive ==
    /\ last.op = "cancel"
    /\ last.code = "OK"
    /\ last.req.immediately
    /\ \E i \in 1..Len(subs) :
          /\ subs[i].id = last.req.subscriptionId
          /\ subs[i].referenceId = last.caller
          /\ subs[i].status = "active"

\* C28: in cancel and restore, when the provider call (cancel,
\* cancelScheduledChanges or resume) throws, the handler answers with the
\* classified error and no data and the store is unchanged; the store
\* changes only in a step whose provider call returned.
C28_ProviderBeforeWrite ==
    [][last'.op \in {"cancel", "restore"}
         => /\ (last'.calls # <<>> /\ last'.provider.fail)
                 => /\ last'.code = handleRazorpayError(last'.provider.error)
                    /\ last'.code # "OK"
                    /\ last'.resp = Null
                    /\ subs' = subs
            /\ subs' # subs
                 => /\ last'.calls # <<>>
                    /\ last'.calls[1] \in {"subscriptions.cancel",
                                           "subscriptions.cancelScheduledChanges",
                                           "subscriptions.resume"}
                    /\ ~last'.provider.fail
                    /\ last'.code = "OK"]_vars

\* The provider refused to undo a scheduled cancellation and the record
\* still carries the flag
C28_RestoreFailedFlagKept ==
    /\ last.op = "restore"
    /\ last.calls = <<"subscriptions.cancelScheduledChanges">>
    /\ last.provider.fail
    /\ last.code = "BAD_REQUEST_ERROR"
    /\ \E i \in 1..Len(subs) :
          /\ subs[i].id = last.req.subscriptionId
          /\ subs[i].cancelAtPeriodEnd
          /\ subs[i].updatedAt = Date(0)

\* C29: after every accepted delivery the status of the record with the
\* event's provider id is the status the table gives for that event, the
\* last one delivered, whatever was delivered before; and an activated or
\* charged event delivered for a cancelled or expired record is accepted and
\* makes the record active again.
C29_LastWriterWins ==
    /\ []((last.op = "webhook" /\ last.code = "OK")
            => FindOne(subs, "razorpaySubscriptionId",
                       EventSubscriptionId(last.req)).status
                 = TableStatus(last.req.rawBody.event))
    /\ [][\A i \in 1..MaxSubs :
            (/\ i <= Len(subs)
             /\ VerifiedForRecord(subs[i])
             /\ subs[i].status \in {"cancelled", "expired"}
             /\ last'.req.rawBody.event \in {"subscription_activated",
                                             "subscription_charged"})
              => /\ last'.code = "OK"
                 /\ last'.cbs[1].was = subs[i].status
                 /\ subs'[i].status = "active"]_vars

\* A record that was expired when a charged event arrived is active
C29_ExpiredRevived ==
    /\ last.op = "webhook"
    /\ last.code = "OK"
    /\ last.req.rawBody.event = "subscription_charged"
    /\ last.cbs[1].was = "expired"
    /\ FindOne(subs, "razorpaySubscriptionId",
               EventSubscriptionId(last.req)).status = "active"

\* The local status the data model gives for a provider status: the
\* provider's own name where the two vocabularies agree, pending for
\* authenticated and for every status the table does not list
Translated(providerStatus) ==
    IF providerStatus \in {"created", "active", "pending", "halted",
                           "cancelled", "completed", "expired"}
    THEN providerStatus
    ELSE "pending"

\* C30: the request create-or-update sends to subscriptions.create has
\* plan_id = the plan's annualPlanId when annual is set and the plan has
\* one, else its monthlyPlanId; total_count = 1 when annual is set, else 12;
\* quantity = seats. When the call succeeds the record it wrote has that
\* plan_id as planId, the requested seats, and the translation of the
\* provider-returned status as status.
C30_CreatePayloadAndRecord ==
    [][(/\ last'.op = "create-or-update"
        /\ last'.calls = <<"subscriptions.create">>)
         => LET body == last'.req
                plan == ResolvePlan(cfg.plans, body.plan)
                sent == last'.provider.request
                wanted == IF body.annual /\ plan.annualPlanId # Null
                          THEN plan.annualPlanId ELSE plan.monthlyPlanId
            IN  /\ sent.plan_id = wanted
                /\ sent.total_count = (IF body.annual THEN 1 ELSE 12)
                /\ sent.quantity = body.seats
                /\ last'.code = "OK"
                     => LET r == FindOne(subs', "id", last'.resp.subscriptionId)
                        IN  /\ r.planId = wanted
                            /\ r.plan = plan.name
                            /\ r.seats = body.seats
                            /\ r.status = Translated(last'.provider.status)
                            /\ r.razorpaySubscriptionId
                                 = last'.resp.razorpaySubscriptionId]_vars

\* An annual request for two seats of a plan without an annual id was sent
\* with the monthly id and one billing cycle, and the provider's unmapped
\* status was stored as pending
C30_AnnualWithoutAnnualId ==
    /\ last.op = "create-or-update"
    /\ last.code = "OK"
    /\ last.req.annual
    /\ last.req.plan = <<"Pro">>
    /\ last.provider.request.plan_id = ProPlan.monthlyPlanId
    /\ last.provider.request.total_count = 1
    /\ last.provider.request.quantity = 2
    /\ last.provider.status = "paused"
    /\ FindOne(subs, "id", last.resp.subscriptionId).status = "pending"

\* The codes of the error envelopes: those the handlers return themselves
\* and those the classifier gives a thrown value (a provider envelope's own
\* code included)
EnvelopeCodes ==
    {"SUBSCRIPTION_DISABLED", "PLAN_NOT_FOUND", "UNAUTHORIZED",
     "USER_NOT_FOUND", "FORBIDDEN", "SUBSCRIPTION_NOT_FOUND",
     "ALREADY_SUBSCRIBED", "INVALID_TRIAL", "CREATE_FAILED", "INVALID_STATE",
     "SIGNATURE_VERIFICATION_FAILED",
     "INVALID_REQUEST", "NETWORK_ERROR", "TIMEOUT_ERROR", "RAZORPAY_ERROR",
     "UNKNOWN_ERROR", ProviderError.rpCode}

\* C26: every completed request of the six orchestrator endpoints ended in a
\* success value or in an error envelope with one of the envelope codes and
\* no data, also when the provider, a hook, request validation or the
\* adapter threw: no exception left the handler.
C26_AlwaysTaggedUnion ==
    last.op \in Endpoints
      => \/ last.code = "OK"
         \/ /\ last.code \in EnvelopeCodes
            /\ last.resp = Null

\* A value that is not an object was thrown inside verify-payment and came
\* back as the fallback envelope
C26_FallbackEnvelope ==
    /\ last.op = "verify-payment"
    /\ last.code = "UNKNOWN_ERROR"
    /\ last.calls = <<>>
    /\ last.resp = Null

\* The notes a configured getSubscriptionCreateParams contributed to the
\* request (none when the option is unset or returned no notes)
ContributedNoteKeys(c) ==
    LET hook == c.getSubscriptionCreateParams
    IN  IF hook = Null \/ hook.returns = Null THEN {}
        ELSE IF hook.returns.params = Null THEN {}
        ELSE IF "notes" \in DOMAIN hook.returns.params
        THEN DOMAIN hook.returns.params.notes
        ELSE {}

\* C31: every request sent to subscriptions.create carries notes with
\* referenceId and planName; notes contributed by getSubscriptionCreateParams
\* are merged with them, so a base key keeps its base value (the caller's id,
\* the plan's name) unless the hook supplied that very key.
C31_NotesKeepBaseKeys ==
    (/\ last.op = "create-or-update"
     /\ last.calls = <<"subscriptions.create">>)
      => LET notes == last.provider.request.notes
             plan == ResolvePlan(cfg.plans, last.req.plan)
             base == [referenceId |-> last.caller, planName |-> plan.name]
         IN  /\ {"referenceId", "planName"} \subseteq DOMAIN notes
             /\ \A k \in DOMAIN base \ ContributedNoteKeys(cfg) :
                    notes[k] = base[k]

\* C32: create-or-update resolves the plan by the kind of selector: a
\* selector starting with 'plan_' picks the first configured plan whose
\* monthlyPlanId or annualPlanId equals it and is never compared with names;
\* any other selector picks the first plan whose name equals it exactly and
\* is never compared with ids. With no such plan the request ends in
\* PLAN_NOT_FOUND with no provider call and the table as it was.
C32_PlanBySelectorKind ==
    [][(last'.op = "create-or-update" /\ cfg.enabled)
         => LET sel == last'.req.plan
                fits(p) == IF sel[1] = "plan_"
                           THEN sel \in {p.monthlyPlanId, p.annualPlanId}
                           ELSE p.name = sel
                hits == {i \in 1..Len(cfg.plans) : fits(cfg.plans[i])}
                first == CHOOSE i \in hits : \A j \in hits : i <= j
            IN  IF hits = {}
                THEN /\ last'.code = "PLAN_NOT_FOUND"
                     /\ last'.calls = <<>>
                     /\ subs' = subs
                ELSE /\ last'.code # "PLAN_NOT_FOUND"
                     /\ last'.calls = <<"subscriptions.create">>
                          => /\ last'.provider.request.notes.planName
                                  = cfg.plans[first].name
                             /\ last'.provider.request.plan_id
                                  = cfg.plans[first].monthlyPlanId]_vars

\* With a plan named 'plan_m1' listed first, the selector 'plan_m1' was
\* resolved through the ids to the Starter plan behind it
C32_IdSelectorSkipsName ==
    /\ cfg.plans = <<NamedLikeAnId, StarterPlan>>
    /\ last.op = "create-or-update"
    /\ last.req.plan = <<"plan_", "m1">>
    /\ last.code = "OK"
    /\ last.provider.request.notes.planName = <<"Starter">>
    /\ FindOne(subs, "id", last.resp.subscriptionId).plan = <<"Starter">>

C34_CancelThenRestore ==
    [][(/\ last.op = "cancel"
        /\ last.code = "OK"
        /\ ~last.req.immediately
        /\ FindOne(subs, "id", last.req.subscriptionId).status = "active"
        /\ last'.op = "restore"
        /\ last'.caller = last.caller
        /\ last'.req.subscriptionId = last.req.subscriptionId
        /\ (last'.calls = <<>> \/ ~last'.provider.fail))
         => /\ FindOne(subs, "id", last.req.subscriptionId).cancelAtPeriodEnd
            /\ last'.code = "OK"
            /\ last'.calls = <<"subscriptions.cancelScheduledChanges">>
            /\ ~FindOne(subs', "id", last.req.subscriptionId).cancelAtPeriodEnd
       ]_vars

\* C35: whenever create-or-update had subscriptions.create succeed and then
\* returned, with success or with an error, the table holds a record
\* carrying the id the provider gave, and a create-or-update of the same
\* reference that directly follows is answered ALREADY_SUBSCRIBED.
C35_NoOrphanedSubscription ==
    [][/\ (/\ last'.op = "create-or-update"
           /\ last'.calls = <<"subscriptions.create">>
           /\ ~last'.provider.fail)
            => \E i \in 1..Len(subs') :
                  /\ subs'[i].razorpaySubscriptionId = SubId(rpCount')
                  /\ subs'[i].referenceId = last'.caller
       /\ (/\ last.op = "create-or-update"
           /\ last.calls = <<"subscriptions.create">>
           /\ ~last.provider.fail
           /\ last'.op = "create-or-update"
           /\ last'.caller = last.caller)
            => last'.code = "ALREADY_SUBSCRIBED"]_vars

\* C36: verify-payment never moves a record's status backwards: a
\* successful verify-payment for a record that is already active, cancelled
\* or expired leaves its status as it was, so a valid verify-payment and a
\* subscription.activated or subscription.charged webhook for the same
\* record end with the record active in either order.
C36_VerifyNeverRegresses ==
    [][(last'.op = "verify-payment" /\ last'.code = "OK")
         => LET sid == last'.req.razorpay_subscription_id
                before == FindOne(subs, "razorpaySubscriptionId", sid)
                after == FindOne(subs', "razorpaySubscriptionId", sid)
            IN  /\ before.status \in {"active", "cancelled", "expired"}
                     => after.status = before.status
                /\ (/\ last.op = "webhook"
                    /\ last.code = "OK"
                    /\ last.req.rawBody.event
                         \in {"subscription_activated", "subscription_charged"}
                    /\ last.req.rawBody.payload.subscription.id = sid)
                     => after.status = "active"]_vars

\* C37: subscription/list returns a record of a reference other than the
\* caller only when authorizeReference was invoked for the request and
\* returned true; with no authorizeReference configured a listing that names
\* another reference returns none of that reference's records.
C37_OthersOnlyWhenAuthorized ==
    (/\ last.op = "list"
     /\ last.code = "OK"
     /\ \E i \in 1..Len(last.resp) : last.resp[i].referenceId # last.caller)
      => cfg.authorizeReference = "allow"

\* C38: the billing-cycle count of a create request agrees with the plan id
\* it bills: total_count is 1 only with the resolved plan's annualPlanId as
\* plan_id and 12 only with its monthlyPlanId, also when annual is set for a
\* plan without an annualPlanId.
C38_CycleCountMatchesPlanId ==
    (/\ last.op = "create-or-update"
     /\ last.calls = <<"subscriptions.create">>)
      => LET plan == ResolvePlan(cfg.plans, last.req.plan)
             sent == last.provider.request
         IN  /\ sent.total_count \in {1, 12}
             /\ sent.total_count = 1 => sent.plan_id = plan.annualPlanId
             /\ sent.total_count = 12 => sent.plan_id = plan.monthlyPlanId

C40_CallbackSeesStoredStatus ==
    (last.op = "webhook" /\ last.code = "OK")
      => LET stored == FindOne(subs, "razorpaySubscriptionId",
                               last.req.rawBody.payload.subscription.id)
         IN  \A i \in 1..Len(last.cbs) :
                last.cbs[i].name \in {"onSubscriptionActivated",
                                      "onSubscriptionCancel",
                                      "onSubscriptionUpdate"}
                  => last.cbs[i].status = stored.status

============================================================================
